---------------------------- MODULE Spec2Model ----------------------------
(***************************************************************************)
(* Scoring engine of EVChargeAdvisor-AI: the regional (US county) equity   *)
(* scorer, the global equity scorer, the convenience scorer, the           *)
(* accessibility analysis and the coverage / distribution / operator /     *)
(* gap analysis.                                                           *)
(*                                                                         *)
(* Numbers.  The Python code works on floats; the model works on exact     *)
(* rationals written as records [num, den] with den > 0.                   *)
(*   - rates (poverty_rate, no_vehicle_rate) are in hundredths of a        *)
(*     percent, the precision CensusAPIClient.get_equity_metrics rounds to *)
(*   - values produced by round(x, 1) are in tenths                        *)
(*   - composite scores are in thousandths (tenths x weight in hundredths) *)
(* round(x, 1) rounds to the nearest tenth; on an exact decimal tie the    *)
(* float that represents x lies on either side, so the direction of a tie  *)
(* is an input of the call (tieUp).                                        *)
(***************************************************************************)
EXTENDS Integers, Sequences, FiniteSets, TLC

VARIABLES op, args, ret

\* BaseAPIClient: position in _make_request, the request being served, the loop
\* index, HTTP requests sent and sleeps taken by the call, its last_error and
\* outcome, and self.stats, the cache directory, the clock and the calls made
VARIABLES pc, request, attempt, sent, waits, last_error, result, stats, cache, now, calls

analysisVars == <<op, args, ret>>

clientVars == <<pc, request, attempt, sent, waits, last_error, result, stats, cache, now, calls>>

vars == <<op, args, ret, pc, request, attempt, sent, waits, last_error, result, stats, cache,
          now, calls>>

NoValue == [none |-> TRUE]

(***************************************************************************)
(* Arithmetic helpers                                                      *)
(***************************************************************************)
Rat(n, d) == [num |-> n, den |-> d]

Max(a, b) == IF a >= b THEN a ELSE b

Min(a, b) == IF a <= b THEN a ELSE b

\* round(n/d, 1) in tenths, for n >= 0 and d > 0, by long division so that
\* no intermediate exceeds 10 * d.
Round1(n, d, tieUp) ==
    LET whole == n \div d
        r1    == n % d
        digit == (10 * r1) \div d
        r2    == (10 * r1) % d
        base  == 10 * whole + digit
    IN  IF 2 * r2 > d THEN base + 1
        ELSE IF 2 * r2 = d /\ tieUp THEN base + 1
        ELSE base

RoundRat1(x, tieUp) == Round1(x.num, x.den, tieUp)

\* sum() of a list
RECURSIVE SumSeq(_)
SumSeq(q) == IF q = <<>> THEN 0 ELSE Head(q) + SumSeq(Tail(q))

(***************************************************************************)
(* config/settings.py                                                      *)
(***************************************************************************)
\* the weights attached to the keys in another order
EQUITY_WEIGHTS_Swapped ==
    [income |-> 25, poverty |-> 35, vehicle_access |-> 20, population_density |-> 20]

\* weights in hundredths
EQUITY_WEIGHTS ==
    [income |-> 35, poverty |-> 25, vehicle_access |-> 20, population_density |-> 20]

(***************************************************************************)
(* EquityAnalyzer (src/analysis/equity_analyzer.py)                        *)
(***************************************************************************)
national_median == 75000

\* stations_per_1000 as the exact quotient station_count * 1000 / population
StationsPer1000(station_count, population) ==
    IF population > 0 THEN Rat(station_count * 1000, population) ELSE Rat(0, 1)

\* the lowest segment with slope 100 instead of 300
access_score_LowSlope(s) ==
    IF s.num >= s.den THEN Rat(100, 1)
    ELSE IF 2 * s.num >= s.den THEN Rat(40 * s.den + 60 * s.num, s.den)
    ELSE IF 10 * s.num >= s.den THEN Rat(20 * s.den + 100 * s.num, s.den)
    ELSE Rat(100 * s.num, s.den)

\* 1. access score before rounding; s = stations_per_1000
access_score(s) ==
    IF s.num >= s.den THEN Rat(100, 1)
    ELSE IF 2 * s.num >= s.den THEN Rat(40 * s.den + 60 * s.num, s.den)
    ELSE IF 10 * s.num >= s.den THEN Rat(20 * s.den + 100 * s.num, s.den)
    ELSE Rat(300 * s.num, s.den)

\* the 5-10 segment applied up to 20
affordability_score_WideSegment(p) ==
    IF p <= 500 THEN Rat(100, 1)
    ELSE IF p <= 2000 THEN Rat(8000 - (p - 500) * 4, 100)
    ELSE Rat(Max(6000 - (p - 2000) * 3, 0), 200)

\* the 10-20 segment starting from 80 instead of 60
affordability_score_Jump(p) ==
    IF p <= 500 THEN Rat(100, 1)
    ELSE IF p <= 1000 THEN Rat(8000 - (p - 500) * 4, 100)
    ELSE IF p <= 2000 THEN Rat(8000 - (p - 1000) * 3, 100)
    ELSE Rat(Max(6000 - (p - 2000) * 3, 0), 200)

\* 2. affordability score before rounding; p = poverty_rate in hundredths
affordability_score(p) ==
    IF p <= 500 THEN Rat(100, 1)
    ELSE IF p <= 1000 THEN Rat(8000 - (p - 500) * 4, 100)
    ELSE IF p <= 2000 THEN Rat(6000 - (p - 1000) * 3, 100)
    ELSE Rat(Max(6000 - (p - 2000) * 3, 0), 200)

\* the last segment without its floor of 20
mobility_score_NoFloor(v) ==
    IF v <= 500 THEN Rat(90, 1)
    ELSE IF v <= 1000 THEN Rat(7000 + (1000 - v) * 4, 100)
    ELSE IF v <= 2000 THEN Rat(5000 + (2000 - v) * 2, 100)
    ELSE Rat(Max(5000 - (v - 2000), 0), 100)

\* 3. mobility score before rounding; v = no_vehicle_rate in hundredths
mobility_score(v) ==
    IF v <= 500 THEN Rat(90, 1)
    ELSE IF v <= 1000 THEN Rat(7000 + (1000 - v) * 4, 100)
    ELSE IF v <= 2000 THEN Rat(5000 + (2000 - v) * 2, 100)
    ELSE Rat(Max(5000 - (v - 2000), 2000), 100)

\* the low-income penalty decided at 0.4 stations per 1000 instead of 0.3
income_score_AdequacyThreshold(s, median_income) ==
    LET acc == access_score(s)
    IN  IF 10 * median_income >= 15 * national_median
        THEN IF 11 * acc.num >= 1000 * acc.den
             THEN Rat(100, 1)
             ELSE Rat(11 * acc.num, 10 * acc.den)
        ELSE IF 10 * median_income >= 8 * national_median
        THEN Rat(700 * national_median + 43 * (10 * median_income - 8 * national_median),
                 10 * national_median)
        ELSE IF 10 * s.num < 4 * s.den THEN Rat(40, 1) ELSE Rat(60, 1)

\* the low-income penalty given to the areas with more stations
income_score_PenalizeAccess(s, median_income) ==
    LET acc == access_score(s)
    IN  IF 10 * median_income >= 15 * national_median
        THEN IF 11 * acc.num >= 1000 * acc.den
             THEN Rat(100, 1)
             ELSE Rat(11 * acc.num, 10 * acc.den)
        ELSE IF 10 * median_income >= 8 * national_median
        THEN Rat(700 * national_median + 43 * (10 * median_income - 8 * national_median),
                 10 * national_median)
        ELSE IF 10 * s.num < 3 * s.den THEN Rat(60, 1) ELSE Rat(40, 1)

\* 4. income alignment score before rounding
income_score(s, median_income) ==
    LET acc == access_score(s)
    IN  IF 10 * median_income >= 15 * national_median
        THEN IF 11 * acc.num >= 1000 * acc.den
             THEN Rat(100, 1)
             ELSE Rat(11 * acc.num, 10 * acc.den)
        ELSE IF 10 * median_income >= 8 * national_median
        THEN Rat(700 * national_median + 43 * (10 * median_income - 8 * national_median),
                 10 * national_median)
        ELSE IF 10 * s.num < 3 * s.den THEN Rat(40, 1) ELSE Rat(60, 1)

\* the components map, each entry in tenths
EquityComponents(s, median_income, poverty_rate, no_vehicle_rate, tieUp) ==
    [access           |-> Min(RoundRat1(access_score(s), tieUp), 1000),
     affordability    |-> RoundRat1(affordability_score(poverty_rate), tieUp),
     mobility         |-> RoundRat1(mobility_score(no_vehicle_rate), tieUp),
     income_alignment |-> RoundRat1(income_score(s, median_income), tieUp)]

\* weighted composite in thousandths
EquityComposite(c) ==
    c.access * EQUITY_WEIGHTS.income
    + c.affordability * EQUITY_WEIGHTS.poverty
    + c.mobility * EQUITY_WEIGHTS.vehicle_access
    + c.income_alignment * EQUITY_WEIGHTS.population_density

\* grade and rating of a composite in thousandths
EquityGrade(composite) ==
    IF composite >= 85000 THEN <<"A", "Excellent">>
    ELSE IF composite >= 70000 THEN <<"B", "Good">>
    ELSE IF composite >= 55000 THEN <<"C", "Fair">>
    ELSE IF composite >= 40000 THEN <<"D", "Poor">>
    ELSE <<"F", "Critical">>

calculate_equity_score(s, median_income, poverty_rate, no_vehicle_rate, tieUp) ==
    LET components == EquityComponents(s, median_income, poverty_rate,
                                       no_vehicle_rate, tieUp)
        composite  == EquityComposite(components)
        g          == EquityGrade(composite)
    IN  [score      |-> Round1(composite, 1000, tieUp),
         grade      |-> g[1],
         rating     |-> g[2],
         components |-> components]

analyze_income_level(median_income) ==
    IF median_income >= 150000 THEN "Very High"
    ELSE IF median_income >= 100000 THEN "High"
    ELSE IF median_income >= 75000 THEN "Upper Middle"
    ELSE IF median_income >= 50000 THEN "Middle"
    ELSE IF median_income >= 35000 THEN "Lower Middle"
    ELSE "Low"

\* need counted as high for the level Critical only
assess_access_level_CriticalOnly(s, poverty_rate) ==
    LET access_level ==
            IF 10 * s.num >= 8 * s.den THEN "High"
            ELSE IF 10 * s.num >= 4 * s.den THEN "Moderate"
            ELSE IF 10 * s.num >= s.den THEN "Limited"
            ELSE "Very Limited"
        access_adequate == 10 * s.num >= 4 * s.den
        need_level ==
            IF poverty_rate >= 2000 THEN "Critical"
            ELSE IF poverty_rate >= 1500 THEN "High"
            ELSE IF poverty_rate >= 1000 THEN "Moderate"
            ELSE "Standard"
        high_need == need_level \in {"Critical"}
        pr == IF ~access_adequate /\ high_need THEN <<"Urgent", 5>>
              ELSE IF ~access_adequate THEN <<"High", 4>>
              ELSE IF high_need THEN <<"Moderate", 3>>
              ELSE <<"Standard", 2>>
    IN  [access_level    |-> access_level,
         access_adequate |-> access_adequate,
         need_level      |-> need_level,
         priority        |-> pr[1],
         priority_score  |-> pr[2]]

assess_access_level(s, poverty_rate) ==
    LET access_level ==
            IF 10 * s.num >= 8 * s.den THEN "High"
            ELSE IF 10 * s.num >= 4 * s.den THEN "Moderate"
            ELSE IF 10 * s.num >= s.den THEN "Limited"
            ELSE "Very Limited"
        access_adequate == 10 * s.num >= 4 * s.den
        need_level ==
            IF poverty_rate >= 2000 THEN "Critical"
            ELSE IF poverty_rate >= 1500 THEN "High"
            ELSE IF poverty_rate >= 1000 THEN "Moderate"
            ELSE "Standard"
        high_need == need_level \in {"Critical", "High"}
        pr == IF ~access_adequate /\ high_need THEN <<"Urgent", 5>>
              ELSE IF ~access_adequate THEN <<"High", 4>>
              ELSE IF high_need THEN <<"Moderate", 3>>
              ELSE <<"Standard", 2>>
    IN  [access_level    |-> access_level,
         access_adequate |-> access_adequate,
         need_level      |-> need_level,
         priority        |-> pr[1],
         priority_score  |-> pr[2]]

\* the generic entry appended whatever the rules produced
generate_recommendations_AlwaysEngage(equity_score, poverty_rate, s, income_level) ==
    LET r1 == IF 10 * s.num < 3 * s.den THEN <<"Infrastructure Expansion">> ELSE <<>>
        r2 == IF poverty_rate > 1500
              THEN r1 \o <<"Affordability", "Location Strategy">> ELSE r1
        r3 == IF income_level \in {"Low", "Lower Middle"}
              THEN r2 \o <<"Financial Support">> ELSE r2
        r4 == IF equity_score < 500 THEN r3 \o <<"Equity Focus">> ELSE r3
    IN  r4 \o <<"Community Engagement">>

\* the categories of the recommendations, in the order they are appended
generate_recommendations(equity_score, poverty_rate, s, income_level) ==
    LET r1 == IF 10 * s.num < 3 * s.den THEN <<"Infrastructure Expansion">> ELSE <<>>
        r2 == IF poverty_rate > 1500
              THEN r1 \o <<"Affordability", "Location Strategy">> ELSE r1
        r3 == IF income_level \in {"Low", "Lower Middle"}
              THEN r2 \o <<"Financial Support">> ELSE r2
        r4 == IF equity_score < 500 THEN r3 \o <<"Equity Focus">> ELSE r3
    IN  IF Len(r4) < 3 THEN r4 \o <<"Community Engagement">> ELSE r4

\* analyze_county_equity: demographics = NoValue when the census client
\* returned nothing, else [population, median_income, poverty_rate,
\* no_vehicle_rate]
analyze_county_equity(demographics, station_count, tieUp) ==
    IF demographics = NoValue
    THEN [status |-> "error", message |-> "Failed to retrieve demographic data"]
    ELSE
    LET s  == StationsPer1000(station_count, demographics.population)
        eq == calculate_equity_score(s, demographics.median_income,
                  demographics.poverty_rate, demographics.no_vehicle_rate, tieUp)
        lv == analyze_income_level(demographics.median_income)
    IN  [status            |-> "success",
         demographics      |-> demographics,
         infrastructure    |-> [total_stations |-> station_count, stations_per_1000 |-> s],
         equity_assessment |-> eq,
         access_assessment |-> assess_access_level(s, demographics.poverty_rate),
         recommendations   |-> generate_recommendations(eq.score,
                                  demographics.poverty_rate, s, lv)]

(***************************************************************************)
(* WorldBankAPIClient.get_country_profile (src/data_access/worldbank_api.py)*)
(***************************************************************************)
\* an optional value: None, or Some(v)
None == <<>>

Some(v) == <<v>>

\* Python's "x or 0" for an optional number
OrZero(x) == IF x = None THEN 0 ELSE x[1]

IncomeLevelOf(gdp_pc) ==
    IF gdp_pc >= 40000 THEN "High Income"
    ELSE IF gdp_pc >= 12000 THEN "Upper Middle Income"
    ELSE IF gdp_pc >= 4000 THEN "Lower Middle Income"
    ELSE "Low Income"

\* ev_readiness = min(100, electricity * 0.3 + min(gdp_pc / 500, 40) + urban * 0.3)
\* in tenths; electricity and urban are in tenths of a percent
EvReadinessScore(raw, tieUp) ==
    LET n == 15 * raw.electricity + Min(raw.gdp_per_capita, 20000) + 15 * raw.urban
    IN  IF n >= 50000 THEN 1000 ELSE Round1(n, 500, tieUp)

\* raw = NoValue when the World Bank returned no indicator; raw.poverty is an
\* optional number in tenths of a percent
get_country_profile(raw, tieUp) ==
    IF raw = NoValue
    THEN [status |-> "error"]
    ELSE [status             |-> "success",
          gdp_per_capita     |-> raw.gdp_per_capita,
          income_level       |-> IncomeLevelOf(raw.gdp_per_capita),
          poverty_rate       |-> IF OrZero(raw.poverty) # 0
                                 THEN Some(10 * raw.poverty[1]) ELSE None,
          urban_percent      |-> raw.urban,
          electricity_access |-> raw.electricity,
          ev_readiness_score |-> EvReadinessScore(raw, tieUp)]

(***************************************************************************)
(* GlobalEquityAnalyzer (src/analysis/global_equity_analyzer.py)           *)
(***************************************************************************)
get_us_income_level(median_income) ==
    IF median_income >= 150000 THEN "Very High Income"
    ELSE IF median_income >= 100000 THEN "High Income"
    ELSE IF median_income >= 75000 THEN "Upper Middle Income"
    ELSE IF median_income >= 50000 THEN "Middle Income"
    ELSE IF median_income >= 35000 THEN "Lower Middle Income"
    ELSE "Low Income"

\* equity_data = NoValue when the census client returned nothing
get_us_demographics(equity_data) ==
    IF equity_data = NoValue
    THEN NoValue
    ELSE [income_per_capita |-> equity_data.median_income,
          income_level      |-> get_us_income_level(equity_data.median_income),
          poverty_rate      |-> Some(equity_data.poverty_rate),
          data_level        |-> "county"]

get_global_demographics(raw, tieUp) ==
    LET profile == get_country_profile(raw, tieUp)
    IN  IF profile.status # "success"
        THEN NoValue
        ELSE [income_per_capita  |-> profile.gdp_per_capita,
              income_level       |-> profile.income_level,
              poverty_rate       |-> profile.poverty_rate,
              electricity_access |-> profile.electricity_access,
              ev_readiness       |-> profile.ev_readiness_score,
              data_level         |-> "country"]

\* dict.get(key, default)
Get(d, key, default) == IF key \in DOMAIN d THEN d[key] ELSE default

\* Python's  word in income_level  on the income levels the providers produce
InLevel(word, income_level) ==
    CASE word = "High"   -> income_level \in {"Very High Income", "High Income"}
      [] word = "Middle" -> income_level \in {"Upper Middle Income", "Middle Income",
                                               "Lower Middle Income"}
      [] word = "Low"    -> income_level \in {"Lower Middle Income", "Low Income"}

\* the test for Low made before the test for Middle
StationBenchmarkInv_LowFirst(income_level) ==
    IF InLevel("High", income_level) THEN 2
    ELSE IF InLevel("Low", income_level) THEN 20
    ELSE 5

\* 1 / station_benchmark: 0.5, 0.2 or 0.05 stations per km2
StationBenchmarkInv(income_level) ==
    IF InLevel("High", income_level) THEN 2
    ELSE IF InLevel("Middle", income_level) THEN 5
    ELSE 20

\* area = 3.14159 * radius_km ** 2, in 1/100000 km2
GlobalArea(radius_km) == 314159 * radius_km * radius_km

\* components["access"] in tenths, for area > 0:
\* min(round(min(station_density / station_benchmark, 2.0) * 50, 1), 100)
GlobalAccess(station_count, income_level, radius_km, tieUp) ==
    LET x == station_count * StationBenchmarkInv(income_level) * 100000
        y == GlobalArea(radius_km)
    IN  IF x >= 2 * y THEN 1000
        ELSE Min(Round1(50 * x, y, tieUp), 1000)

\* a score proportional to the income instead of a tier
EconomicReadiness_Scaled(income) == Min(income \div 50, 1000)

EconomicReadiness(income) ==
    IF income >= 50000 THEN 1000
    ELSE IF income >= 30000 THEN 800
    ELSE IF income >= 15000 THEN 600
    ELSE IF income >= 5000 THEN 400
    ELSE 200

\* a rate of 0, which stands for a missing rate too, put in the worst tier
GlobalAffordability_MissingWorst(poverty_rate) ==
    IF poverty_rate = 0 THEN 200
    ELSE IF poverty_rate <= 500 THEN 1000
    ELSE IF poverty_rate <= 1000 THEN 800
    ELSE IF poverty_rate <= 2000 THEN 600
    ELSE IF poverty_rate <= 3000 THEN 400
    ELSE 200

\* poverty_rate in hundredths of a percent
GlobalAffordability(poverty_rate) ==
    IF poverty_rate <= 500 THEN 1000
    ELSE IF poverty_rate <= 1000 THEN 800
    ELSE IF poverty_rate <= 2000 THEN 600
    ELSE IF poverty_rate <= 3000 THEN 400
    ELSE 200

InfrastructureReadiness(demographics, country_code, tieUp) ==
    IF country_code # "USA"
    THEN Round1(Get(demographics, "ev_readiness", 500)
                + Get(demographics, "electricity_access", 1000), 20, tieUp)
    ELSE 900

\* weights in hundredths
GlobalWeights ==
    [access |-> 35, economic_readiness |-> 25, affordability |-> 20,
     infrastructure_readiness |-> 20]

\* total_score in thousandths
GlobalTotal(c) ==
    c.access * GlobalWeights.access
    + c.economic_readiness * GlobalWeights.economic_readiness
    + c.affordability * GlobalWeights.affordability
    + c.infrastructure_readiness * GlobalWeights.infrastructure_readiness

GlobalGrade(total_score) ==
    IF total_score >= 80000 THEN <<"A", "Excellent">>
    ELSE IF total_score >= 65000 THEN <<"B", "Good">>
    ELSE IF total_score >= 50000 THEN <<"C", "Fair">>
    ELSE IF total_score >= 35000 THEN <<"D", "Poor">>
    ELSE <<"F", "Critical">>

\* raises ZeroDivisionError when the area is 0
calculate_global_equity_score(station_count, demographics, radius_km, country_code, tieUp) ==
    IF GlobalArea(radius_km) = 0
    THEN [raised |-> "ZeroDivisionError"]
    ELSE
    LET components ==
            [access |-> GlobalAccess(station_count,
                            Get(demographics, "income_level", "Middle Income"),
                            radius_km, tieUp),
             economic_readiness |->
                 EconomicReadiness(Get(demographics, "income_per_capita", 0)),
             affordability |->
                 GlobalAffordability(OrZero(Get(demographics, "poverty_rate", None))),
             infrastructure_readiness |->
                 InfrastructureReadiness(demographics, country_code, tieUp)]
        total_score == GlobalTotal(components)
        g == GlobalGrade(total_score)
    IN  [raised     |-> "no",
         score      |-> Round1(total_score, 1000, tieUp),
         grade      |-> g[1],
         rating     |-> g[2],
         components |-> components]

\* the categories of the recommendations, in the order they are appended
generate_global_recommendations(demographics, station_count) ==
    LET income_level == Get(demographics, "income_level", "")
        poverty_rate == OrZero(Get(demographics, "poverty_rate", None))
        ev_readiness == Get(demographics, "ev_readiness", 1000)
        r1 == IF station_count < 50 THEN <<"Infrastructure Expansion">> ELSE <<>>
        r2 == IF income_level # "" /\ InLevel("Low", income_level)
              THEN r1 \o <<"Affordability", "Infrastructure">> ELSE r1
        r3 == IF poverty_rate # 0 /\ poverty_rate > 1500 THEN r2 \o <<"Equity">> ELSE r2
        r4 == IF ev_readiness < 500 THEN r3 \o <<"Policy">> ELSE r3
    IN  IF Len(r4) < 3 THEN r4 \o <<"Community Engagement">> ELSE r4

\* analyze_equity: census is the census answer and raw the World Bank answer
\* (each NoValue when the provider has nothing); has_fips tells whether
\* state_fips and county_fips were passed
analyze_equity(country_code, has_fips, census, raw, station_count, radius_km, tieUp) ==
    LET demographics == IF country_code = "USA" /\ has_fips
                        THEN get_us_demographics(census)
                        ELSE get_global_demographics(raw, tieUp)
    IN  IF demographics = NoValue
        THEN [status         |-> "partial",
              message        |-> "Demographics not available, showing infrastructure only",
              infrastructure |-> [total_stations |-> station_count,
                                  search_radius_km |-> radius_km]]
        ELSE
        LET eq == calculate_global_equity_score(station_count, demographics,
                                                radius_km, country_code, tieUp)
        IN  IF eq.raised # "no"
            THEN [status |-> eq.raised]
            ELSE [status            |-> "success",
                  demographics      |-> demographics,
                  infrastructure    |-> [total_stations |-> station_count,
                                         search_radius_km |-> radius_km],
                  equity_assessment |-> eq,
                  recommendations   |-> generate_global_recommendations(demographics,
                                                                        station_count)]

(***************************************************************************)
(* OverpassAPIClient.calculate_convenience_score                           *)
(* (src/data_access/overpass_api.py); scores in tenths                     *)
(***************************************************************************)
\* the table with D from 2.5
get_grade_LenientD(score) ==
    IF score >= 85 THEN "A"
    ELSE IF score >= 70 THEN "B"
    ELSE IF score >= 50 THEN "C"
    ELSE IF score >= 25 THEN "D"
    ELSE "F"

get_grade(score) ==
    IF score >= 85 THEN "A"
    ELSE IF score >= 70 THEN "B"
    ELSE IF score >= 50 THEN "C"
    ELSE IF score >= 30 THEN "D"
    ELSE "F"

\* the category scores without their caps
CategoryScores_Uncapped(counts) ==
    [dining        |-> counts.dining * 5,
     shopping      |-> counts.shopping * 3,
     services      |-> counts.services * 3,
     transit       |-> counts.transit * 5,
     healthcare    |-> counts.healthcare * 5,
     entertainment |-> counts.entertainment * 5]

CategoryScores(counts) ==
    [dining        |-> Min(counts.dining * 5, 25),
     shopping      |-> Min(counts.shopping * 3, 15),
     services      |-> Min(counts.services * 3, 15),
     transit       |-> Min(counts.transit * 5, 25),
     healthcare    |-> Min(counts.healthcare * 5, 10),
     entertainment |-> Min(counts.entertainment * 5, 10)]

\* counts = number of POIs found per category (dining .. entertainment, other)
calculate_convenience_score(counts) ==
    LET scores == CategoryScores(counts)
        total_score == scores.dining + scores.shopping + scores.services
                       + scores.transit + scores.healthcare + scores.entertainment
    IN  [total_score     |-> total_score,
         max_score       |-> 100,
         category_scores |-> scores,
         category_counts |-> counts,
         total_pois      |-> counts.dining + counts.shopping + counts.services
                             + counts.transit + counts.healthcare
                             + counts.entertainment + counts.other,
         grade           |-> get_grade(total_score)]

(***************************************************************************)
(* AccessibilityAnalyzer (src/analysis/accessibility_analyzer.py)          *)
(* A station is [located |-> FALSE] or [located |-> TRUE, pois |-> counts];*)
(* pois are the POI counts around it.  avg_score is a float: the exact     *)
(* quotient num / den in tenths, and below tells that the float lies under *)
(* it, as sum() of three or more decimal scores can                        *)
(* (2.3 + 6.1 + 0.6 = 8.999999999999998).                                  *)
(***************************************************************************)
\* a station without coordinates scored 0.0 / F instead of reported as an error
analyze_station_accessibility_ZeroScore(station) ==
    IF ~station.located
    THEN [convenience_score |-> 0, convenience_grade |-> "F"]
    ELSE LET convenience == calculate_convenience_score(station.pois)
         IN  [convenience_score |-> convenience.total_score,
              convenience_grade |-> convenience.grade,
              category_scores   |-> convenience.category_scores,
              poi_counts        |-> convenience.category_counts]

analyze_station_accessibility(station) ==
    IF ~station.located
    THEN [status |-> "error", message |-> "No location data"]
    ELSE LET convenience == calculate_convenience_score(station.pois)
         IN  [convenience_score |-> convenience.total_score,
              convenience_grade |-> convenience.grade,
              category_scores   |-> convenience.category_scores,
              poi_counts        |-> convenience.category_counts]

HasConvenienceScore(a) == "convenience_score" \in DOMAIN a

\* avg_score >= b for a breakpoint b in tenths
AvgAtLeast(avg_score, b) ==
    IF avg_score.below
    THEN avg_score.num > b * avg_score.den
    ELSE avg_score.num >= b * avg_score.den

calculate_overall_grade(avg_score) ==
    IF AvgAtLeast(avg_score, 85) THEN "A"
    ELSE IF AvgAtLeast(avg_score, 70) THEN "B"
    ELSE IF AvgAtLeast(avg_score, 50) THEN "C"
    ELSE IF AvgAtLeast(avg_score, 30) THEN "D"
    ELSE "F"

\* sum(scores) / len(scores) if scores else 0
AvgScore(scores, sumLow) ==
    IF scores = <<>>
    THEN [num |-> 0, den |-> 1, below |-> FALSE]
    ELSE [num |-> SumSeq(scores), den |-> Len(scores),
          below |-> sumLow /\ Len(scores) >= 3]

MinScore(scores) ==
    IF scores = <<>> THEN 0
    ELSE CHOOSE x \in {scores[i] : i \in 1 .. Len(scores)} :
             \A i \in 1 .. Len(scores) : x <= scores[i]

MaxScore(scores) ==
    IF scores = <<>> THEN 0
    ELSE CHOOSE x \in {scores[i] : i \in 1 .. Len(scores)} :
             \A i \in 1 .. Len(scores) : x >= scores[i]

\* analyze_location_accessibility for sample_size >= 0; the climate data and
\* the top / bottom station lists of the result are left out
analyze_location_accessibility(stations, sample_size, tieUp, sumLow) ==
    IF stations = <<>>
    THEN [status |-> "error", message |-> "No charging stations found"]
    ELSE
    LET sample_stations == SubSeq(stations, 1, Min(sample_size, Len(stations)))
        detailed_analyses ==
            [i \in 1 .. Len(sample_stations) |->
                analyze_station_accessibility(sample_stations[i])]
        scored == SelectSeq(detailed_analyses, HasConvenienceScore)
        scores == [i \in 1 .. Len(scored) |-> scored[i].convenience_score]
        avg_score == AvgScore(scores, sumLow)
        grade_dist ==
            [g \in {"A", "B", "C", "D", "F"} |->
                Cardinality({i \in 1 .. Len(detailed_analyses) :
                    Get(detailed_analyses[i], "convenience_grade", "F") = g})]
    IN  [status  |-> "success",
         summary |-> [total_stations        |-> Len(stations),
                      stations_analyzed     |-> Len(detailed_analyses),
                      avg_convenience_score |->
                          Round1(avg_score.num, 10 * avg_score.den, tieUp),
                      min_convenience_score |-> MinScore(scores),
                      max_convenience_score |-> MaxScore(scores),
                      overall_grade         |-> calculate_overall_grade(avg_score)],
         grade_distribution |-> grade_dist,
         detailed_analyses  |-> detailed_analyses]

(***************************************************************************)
(* InfrastructureAnalyzer (src/analysis/infrastructure_analyzer.py)        *)
(* A station is [latitude, longitude, operator, fast]: fast = number of    *)
(* its connections above 50 kW.  A coordinate 0 is falsy in Python.        *)
(***************************************************************************)
Lats(stations) == [i \in 1 .. Len(stations) |-> stations[i].latitude]

Lons(stations) == [i \in 1 .. Len(stations) |-> stations[i].longitude]

\* quadrant of station st about the centroid (sum_lat / n, sum_lon / n);
\* "" for a station the loop skips
QuadrantOf(st, sum_lat, sum_lon, n) ==
    IF st.latitude # 0 /\ st.longitude # 0
    THEN IF st.latitude * n >= sum_lat
         THEN IF st.longitude * n >= sum_lon THEN "NE" ELSE "NW"
         ELSE IF st.longitude * n >= sum_lon THEN "SE" ELSE "SW"
    ELSE ""

Quadrants(stations) ==
    LET n == Len(stations)
        sum_lat == SumSeq(Lats(stations))
        sum_lon == SumSeq(Lons(stations))
    IN  [q \in {"NE", "NW", "SE", "SW"} |->
            Cardinality({i \in 1 .. n :
                            QuadrantOf(stations[i], sum_lat, sum_lon, n) = q})]

\* variance * 64: sum of (v - total / 4) ** 2 over the quadrants, / 4
Variance64(quadrants, total) ==
    (4 * quadrants["NE"] - total) * (4 * quadrants["NE"] - total)
    + (4 * quadrants["NW"] - total) * (4 * quadrants["NW"] - total)
    + (4 * quadrants["SE"] - total) * (4 * quadrants["SE"] - total)
    + (4 * quadrants["SW"] - total) * (4 * quadrants["SW"] - total)

\* the variance of all stations in one quadrant, * 64
MaxVariance64_OneQuadrant(total) == 12 * total * total

\* max_variance * 64 = (total - total / 4) ** 2 * 64
MaxVariance64(total) == 36 * total * total

\* variance / max_variance, not subtracted from 1
EvennessScore_Unevenness(quadrants) ==
    LET total == quadrants["NE"] + quadrants["NW"] + quadrants["SE"] + quadrants["SW"]
    IN  IF MaxVariance64(total) = 0
        THEN Rat(1, 1)
        ELSE Rat(Variance64(quadrants, total), MaxVariance64(total))

\* score before rounding
EvennessScore(quadrants) ==
    LET total == quadrants["NE"] + quadrants["NW"] + quadrants["SE"] + quadrants["SW"]
    IN  IF MaxVariance64(total) = 0
        THEN Rat(1, 1)
        ELSE Rat(MaxVariance64(total) - Variance64(quadrants, total), MaxVariance64(total))

EvennessRating(score) ==
    IF 10 * score.num >= 8 * score.den THEN "Even"
    ELSE IF 10 * score.num >= 6 * score.den THEN "Moderate"
    ELSE IF 10 * score.num >= 4 * score.den THEN "Uneven"
    ELSE "Clustered"

\* the fallback taken below 3 stations instead of 4
calculate_distribution_FromThree(stations, tieUp) ==
    IF Len(stations) < 3
    THEN [score |-> 50, rating |-> "Insufficient data"]
    ELSE LET quadrants == Quadrants(stations)
             score == EvennessScore(quadrants)
         IN  [score     |-> Round1(10 * score.num, score.den, tieUp),
              rating    |-> EvennessRating(score),
              quadrants |-> quadrants]

\* score in hundredths
calculate_distribution(stations, tieUp) ==
    IF Len(stations) < 4
    THEN [score |-> 50, rating |-> "Insufficient data"]
    ELSE LET quadrants == Quadrants(stations)
             score == EvennessScore(quadrants)
         IN  [score     |-> Round1(10 * score.num, score.den, tieUp),
              rating    |-> EvennessRating(score),
              quadrants |-> quadrants]

\* _analyze_operators: operators is a dict, which keeps its keys in the order
\* of their first insertion
OperatorNames(stations) == {stations[i].operator : i \in 1 .. Len(stations)}

OperatorCount(stations, name) ==
    Cardinality({i \in 1 .. Len(stations) : stations[i].operator = name})

\* position of the operator among the keys of the dict
FirstIndex(stations, name) ==
    CHOOSE i \in 1 .. Len(stations) :
        /\ stations[i].operator = name
        /\ \A j \in 1 .. (i - 1) : stations[j].operator # name

\* the operators kept in insertion order, not sorted by count
SortsBefore_Insertion(stations, a, b) ==
    FirstIndex(stations, a) < FirstIndex(stations, b)

\* a comes before b in sorted(operators.items(), key=count, reverse=True):
\* the sort is stable, so equal counts keep their insertion order
SortsBefore(stations, a, b) ==
    \/ OperatorCount(stations, a) > OperatorCount(stations, b)
    \/ /\ OperatorCount(stations, a) = OperatorCount(stations, b)
       /\ FirstIndex(stations, a) < FirstIndex(stations, b)

\* the operator names in sorted order
sorted_ops(stations) ==
    LET names == OperatorNames(stations)
    IN  [r \in 1 .. Cardinality(names) |->
            CHOOSE a \in names :
                Cardinality({b \in names : SortsBefore(stations, b, a)}) = r - 1]

\* distribution is the ordered dict of the top 10 as a sequence; market_share
\* in tenths of a percent, hhi in hundredths; the connector counts are left
\* out
analyze_operators(stations, tieUp) ==
    LET sorted == sorted_ops(stations)
        total_stations == Len(stations)
        top == SubSeq(sorted, 1, Min(10, Len(sorted)))
        distribution ==
            [i \in 1 .. Len(top) |->
                [name         |-> top[i],
                 stations     |-> OperatorCount(stations, top[i]),
                 market_share |-> Round1(100 * OperatorCount(stations, top[i]),
                                         total_stations, tieUp)]]
        hhi == SumSeq([i \in 1 .. Len(top) |->
                          distribution[i].market_share * distribution[i].market_share])
    IN  [total_operators      |-> Len(sorted),
         distribution         |-> distribution,
         top_operator         |-> IF sorted # <<>> THEN sorted[1] ELSE "N/A",
         hhi_index            |-> Round1(hhi, 1000, tieUp),
         market_concentration |-> IF hhi < 150000 THEN "Competitive"
                                  ELSE IF hhi < 250000 THEN "Moderate"
                                  ELSE "Concentrated"]

\* math.pi as a fraction: every density compared below is a fraction with a
\* small denominator, so the comparisons come out as with the real pi
PiNum == 355

PiDen == 113

\* density >= k / kden stations per km2 for n stations in a disk of radius
\* r10 / 10 km:  n / (pi * (r10 / 10) ** 2) >= k / kden
DensityAtLeast(n, r10, k, kden) ==
    100 * n * PiDen * kden >= k * PiNum * r10 * r10

\* raises ZeroDivisionError when the area is 0
analyze_coverage(stations, r10, tieUp) ==
    IF Len(stations) = 0
    THEN [raised |-> "no", density |-> 0, distribution |-> "none"]
    ELSE IF r10 * r10 = 0
    THEN [raised |-> "ZeroDivisionError"]
    ELSE
    LET n == Len(stations)
        distribution == calculate_distribution(stations, tieUp)
        cs == IF DensityAtLeast(n, r10, 5, 1) THEN <<"Excellent", 5>>
              ELSE IF DensityAtLeast(n, r10, 3, 1) THEN <<"Good", 4>>
              ELSE IF DensityAtLeast(n, r10, 1, 1) THEN <<"Moderate", 3>>
              ELSE IF DensityAtLeast(n, r10, 1, 2) THEN <<"Limited", 2>>
              ELSE <<"Poor", 1>>
    IN  [raised              |-> "no",
         distribution_score  |-> distribution.score,
         distribution_rating |-> distribution.rating,
         coverage_rating     |-> cs[1],
         coverage_score      |-> cs[2]]

\* the elif chain that reports the first matching rule only
identify_gaps_FirstOnly(stations, r10) ==
    LET n == Len(stations)
        fast_chargers == SumSeq([i \in 1 .. n |-> stations[i].fast])
        operators == {stations[i].operator : i \in 1 .. n}
    IN  IF r10 * r10 = 0
        THEN [raised |-> "ZeroDivisionError"]
        ELSE LET gaps ==
                     IF 10 * fast_chargers < n
                     THEN <<[type |-> "fast_charging", severity |-> "high"]>>
                     ELSE IF Cardinality(operators) < 3
                     THEN <<[type |-> "operator_diversity", severity |-> "medium"]>>
                     ELSE IF ~DensityAtLeast(n, r10, 1, 1)
                     THEN <<[type |-> "coverage_density", severity |-> "high"]>>
                     ELSE <<>>
             IN  [raised          |-> "no",
                  gaps_identified |-> Len(gaps),
                  gaps            |-> gaps,
                  summary         |-> IF gaps # <<>> THEN "descriptions"
                                      ELSE "No significant gaps identified"]

\* the density gap reported below 0.5 stations per km2 instead of 1
identify_gaps_HalfDensity(stations, r10) ==
    LET n == Len(stations)
        fast_chargers == SumSeq([i \in 1 .. n |-> stations[i].fast])
        operators == {stations[i].operator : i \in 1 .. n}
        g1 == IF 10 * fast_chargers < n
              THEN <<[type |-> "fast_charging", severity |-> "high"]>> ELSE <<>>
        g2 == IF Cardinality(operators) < 3
              THEN g1 \o <<[type |-> "operator_diversity", severity |-> "medium"]>>
              ELSE g1
    IN  IF r10 * r10 = 0
        THEN [raised |-> "ZeroDivisionError"]
        ELSE LET gaps == IF ~DensityAtLeast(n, r10, 1, 2)
                         THEN g2 \o <<[type |-> "coverage_density", severity |-> "high"]>>
                         ELSE g2
             IN  [raised          |-> "no",
                  gaps_identified |-> Len(gaps),
                  gaps            |-> gaps,
                  summary         |-> IF gaps # <<>> THEN "descriptions"
                                      ELSE "No significant gaps identified"]

\* the gaps [type, severity] in the order they are appended; the summary of
\* a non-empty list is the joined descriptions;
\* raises ZeroDivisionError when the area is 0
identify_gaps(stations, r10) ==
    LET n == Len(stations)
        fast_chargers == SumSeq([i \in 1 .. n |-> stations[i].fast])
        operators == {stations[i].operator : i \in 1 .. n}
        g1 == IF 10 * fast_chargers < n
              THEN <<[type |-> "fast_charging", severity |-> "high"]>> ELSE <<>>
        g2 == IF Cardinality(operators) < 3
              THEN g1 \o <<[type |-> "operator_diversity", severity |-> "medium"]>>
              ELSE g1
    IN  IF r10 * r10 = 0
        THEN [raised |-> "ZeroDivisionError"]
        ELSE LET gaps == IF ~DensityAtLeast(n, r10, 1, 1)
                         THEN g2 \o <<[type |-> "coverage_density", severity |-> "high"]>>
                         ELSE g2
             IN  [raised          |-> "no",
                  gaps_identified |-> Len(gaps),
                  gaps            |-> gaps,
                  summary         |-> IF gaps # <<>> THEN "descriptions"
                                      ELSE "No significant gaps identified"]

(***************************************************************************)
(* Inputs                                                                  *)
(***************************************************************************)
MaxStationBlocks == 3

\* station counts found by the search: 0 .. 75, then blocks of 50
StationCounts ==
    {0, 5, 10, 20, 30, 40, 45, 50, 75} \cup {50 * k : k \in 2 .. MaxStationBlocks}

Populations == {-1, 0, 100000, 851036}

Incomes == {-1, 0, 30000, 59999, 60000, 75000, 112450, 112500, 136689}

PovertyRates == {-100, 0, 500, 750, 1000, 1048, 1500, 1501, 2000, 4000, 10000, 15000}

NoVehicleRates == {-100, 0, 412, 500, 750, 1000, 1500, 2000, 6000, 10000, 15000}

RegionDemographics ==
    [population : Populations, median_income : Incomes,
     poverty_rate : PovertyRates, no_vehicle_rate : NoVehicleRates]

ValidRegion(d) ==
    /\ d.population >= 0
    /\ d.median_income >= 0
    /\ d.poverty_rate >= 0 /\ d.poverty_rate <= 10000
    /\ d.no_vehicle_rate >= 0 /\ d.no_vehicle_rate <= 10000

MaxRadius == 3

\* search radius in km: the small radii and one of 8 km
Radii == (0 .. MaxRadius) \cup {8}

\* station counts found by the global search (at most max_results = 500)
GlobalStationCounts == StationCounts \cup {201}

CountryCodes == {"USA", "THA"}

\* census answers offered to the global analysis
GlobalCensus ==
    {d \in RegionDemographics : d.population = 100000 /\ d.no_vehicle_rate = 412}

\* World Bank answers: poverty, urban and electricity in tenths of a percent
WorldBankRaw ==
    [gdp_per_capita : {0, 3000, 6000, 16000, 35000, 60000},
     poverty        : {None, Some(0), Some(30), Some(80), Some(155), Some(250), Some(350)},
     urban          : {0, 505, 1000},
     electricity    : {0, 873, 1000}]

MaxPoi == 6

PoiCounts ==
    [dining : (0 .. MaxPoi) \cup {10}, shopping : 0 .. MaxPoi, services : 0 .. MaxPoi,
     transit : 0 .. MaxPoi, healthcare : 0 .. 3, entertainment : 0 .. 3,
     other : 0 .. 1]

MaxSampled == 3

\* POI counts around a station: scores 0.6, 2.3, 6.1 and 10.0
StationPois ==
    {[dining |-> 0, shopping |-> 0, services |-> 2, transit |-> 0,
      healthcare |-> 0, entertainment |-> 0, other |-> 0],
     [dining |-> 4, shopping |-> 1, services |-> 0, transit |-> 0,
      healthcare |-> 0, entertainment |-> 0, other |-> 1],
     [dining |-> 5, shopping |-> 2, services |-> 0, transit |-> 5,
      healthcare |-> 0, entertainment |-> 1, other |-> 0],
     [dining |-> 5, shopping |-> 5, services |-> 5, transit |-> 5,
      healthcare |-> 2, entertainment |-> 2, other |-> 0]}

\* stations of the accessibility analysis, with or without coordinates
AccessStations ==
    [located : {TRUE}, pois : StationPois] \cup {[located |-> FALSE]}

\* sample_size: up to the list length, and the default 10
SampleSizes == (0 .. MaxSampled) \cup {10}

MaxLocated == 5

SeqsUpTo(S, n) == UNION {[1 .. k -> S] : k \in 0 .. n}

\* stations that differ in their coordinates only
LocatedStations ==
    [latitude : {0, 1, 2}, longitude : {1, 2}, operator : {"A"}, fast : {0}]

\* stations on two sites
SiteStations ==
    [latitude : {1, 2}, longitude : {1}, operator : {"A"}, fast : {0}]

\* stations that differ in operator and fast connections only
OperatedStations ==
    [latitude : {1}, longitude : {1}, operator : {"A", "B", "C"}, fast : {0, 1}]

MaxTail == 2

OperatorStation(name) == [latitude |-> 1, longitude |-> 1, operator |-> name, fast |-> 0]

\* ten stations of nine operators
OperatorPrefix ==
    [i \in 1 .. 10 |->
        OperatorStation(<<"O1", "O1", "O2", "O3", "O4", "O5", "O6", "O7", "O8", "O9">>[i])]

\* station lists with up to eleven operators: the ten stations above with a
\* few more before and after them
OperatorLists ==
    LET tails == SeqsUpTo({OperatorStation(n) : n \in {"X", "Y", "O9"}}, MaxTail)
    IN  {h \o OperatorPrefix \o e : h \in tails, e \in tails}

\* n stations of k operators in turn, the first f of them with one fast
\* connection
ManyStations(n, f, k) ==
    [i \in 1 .. n |->
        [latitude |-> 1, longitude |-> 1, operator |-> <<"A", "B", "C">>[(i % k) + 1],
         fast |-> IF i <= f THEN 1 ELSE 0]]

\* station lists of the gap analysis: the short lists, and lists of 10, 11
\* and 30 stations
GapLists ==
    (SeqsUpTo(OperatedStations, MaxLocated) \ {<<>>})
    \cup {ManyStations(n, f, k) : n \in {10, 11, 30}, f \in 0 .. 3, k \in 1 .. 3}

\* search radius in tenths of a km
Radii10 == {0, 5, 10, 20}

(***************************************************************************)
(* BaseAPIClient (src/data_access/base_api.py): retries and response cache *)
(***************************************************************************)
\* API_SETTINGS
max_retries == 3

\* seconds
retry_delay == 1

\* seconds
cache_duration == 3600

\* method.upper()
Upper(method) == IF method = "get" THEN "GET" ELSE method

\* the cache is read and written for GET requests made with use_cache only
UsesCache(req) == Upper(req.method) = "GET" /\ req.use_cache

\* md5 of "url:params", taken as injective
get_cache_key(url, params) == <<url, params>>

IsValid_Inclusive(entry, t) == t - entry.timestamp <= cache_duration

\* datetime.now() - cached_time < timedelta(seconds=self.cache_duration)
IsValid(entry, t) == t - entry.timestamp < cache_duration

\* the cached data if the entry is valid, and the cache directory afterwards:
\* an expired file is removed
get_cached_response(files, req, t) ==
    LET key == get_cache_key(req.url, req.params)
    IN  IF files[key] = None
          THEN [data |-> None, files |-> files]
          ELSE IF IsValid(files[key][1], t)
                 THEN [data |-> Some(files[key][1].data), files |-> files]
                 ELSE [data |-> None, files |-> [files EXCEPT ![key] = None]]

\* a failed write is caught and leaves the directory as it was
cache_response(files, req, data, t, disk_ok) ==
    IF disk_ok
      THEN [files EXCEPT ![get_cache_key(req.url, req.params)] =
                Some([timestamp |-> t, data |-> data])]
      ELSE files

\* "Don't retry on client errors (4xx)"
IsClientError(status) == 400 <= status /\ status < 500

\* Timeout is the one failure that self.stats["errors"] does not count
CountsAsError(response) == response.kind \in {"http_error", "failed"}

SleepsAfter_Every(i) == TRUE

\* "Wait before retry": not after the last iteration of the loop
SleepsAfter(i) == i < max_retries - 1

\* time.sleep(self.retry_delay * (attempt + 1))
SleepSeconds(i) == retry_delay * (i + 1)

\* calls made on one client
MaxCalls == 2

\* seconds on the clock
MaxClock == 3600

\* time that passes between two calls: the two sides of cache_duration (the
\* sleeps of a call in between add the seconds)
ClockSteps == {cache_duration - 1, cache_duration}

Methods == {"GET", "get", "POST"}

Urls == {"https://api.openchargemap.io/v3/poi"}

ParamSets == {"latitude=13.7", "latitude=40.7"}

CacheKeys == {get_cache_key(u, p) : u \in Urls, p \in ParamSets}

Requests == [method : Methods, url : Urls, params : ParamSets, use_cache : BOOLEAN]

\* response bodies (JSON objects)
Payloads == {"body1"}

\* statuses for which raise_for_status raises HTTPError
ErrorStatuses == {400, 499, 500}

\* what one session.request can come to: a parsed 2xx response (and whether the
\* cache file can be written), a timeout, an HTTP error status, or another
\* RequestException (connection error, body that is not JSON)
Responses ==
    [kind : {"ok"}, data : Payloads, disk_ok : BOOLEAN]
        \cup {[kind |-> "timeout"], [kind |-> "failed"]}
        \cup [kind : {"http_error"}, status : ErrorStatuses]

(***************************************************************************)
(* State machine: a caller invokes one analysis at a time                  *)
(***************************************************************************)
ClientInit ==
    /\ pc = "idle"
    /\ request = NoValue
    /\ attempt = 0
    /\ sent = 0
    /\ waits = <<>>
    /\ last_error = None
    /\ result = NoValue
    /\ stats = [requests |-> 0, cache_hits |-> 0, errors |-> 0]
    /\ cache = [k \in CacheKeys |-> None]
    /\ now = 0
    /\ calls = 0

Init ==
    /\ op = "idle"
    /\ args = NoValue
    /\ ret = NoValue
    /\ ClientInit

AnalyzeCountyEquity ==
    /\ op = "idle"
    /\ \E d \in RegionDemographics \cup {NoValue}, n \in StationCounts, t \in BOOLEAN :
          /\ op' = "analyze_county_equity"
          /\ args' = [demographics |-> d, station_count |-> n, tieUp |-> t]
          /\ ret' = analyze_county_equity(d, n, t)
    /\ UNCHANGED clientVars

AnalyzeEquityUS ==
    /\ op = "idle"
    /\ \E c \in GlobalCensus \cup {NoValue}, n \in GlobalStationCounts, r \in Radii,
          t \in BOOLEAN :
          /\ op' = "analyze_equity"
          /\ args' = [country_code |-> "USA", has_fips |-> TRUE, census |-> c,
                      raw |-> NoValue, station_count |-> n, radius_km |-> r,
                      tieUp |-> t]
          /\ ret' = analyze_equity("USA", TRUE, c, NoValue, n, r, t)
    /\ UNCHANGED clientVars

AnalyzeEquityWorld ==
    /\ op = "idle"
    /\ \E cc \in CountryCodes, w \in WorldBankRaw \cup {NoValue}, n \in GlobalStationCounts,
          r \in Radii, t \in BOOLEAN :
          /\ op' = "analyze_equity"
          /\ args' = [country_code |-> cc, has_fips |-> FALSE, census |-> NoValue,
                      raw |-> w, station_count |-> n, radius_km |-> r, tieUp |-> t]
          /\ ret' = analyze_equity(cc, FALSE, NoValue, w, n, r, t)
    /\ UNCHANGED clientVars

CalculateConvenienceScore ==
    /\ op = "idle"
    /\ \E c \in PoiCounts :
          /\ op' = "calculate_convenience_score"
          /\ args' = [counts |-> c]
          /\ ret' = calculate_convenience_score(c)
    /\ UNCHANGED clientVars

CalculateDistribution ==
    /\ op = "idle"
    /\ \E st \in SeqsUpTo(LocatedStations, MaxLocated), t \in BOOLEAN :
          /\ op' = "calculate_distribution"
          /\ args' = [stations |-> st, tieUp |-> t]
          /\ ret' = calculate_distribution(st, t)
    /\ UNCHANGED clientVars

AnalyzeCoverage ==
    /\ op = "idle"
    /\ \E st \in SeqsUpTo(SiteStations, MaxLocated), r \in Radii10, t \in BOOLEAN :
          /\ op' = "analyze_coverage"
          /\ args' = [stations |-> st, radius_10 |-> r, tieUp |-> t]
          /\ ret' = analyze_coverage(st, r, t)
    /\ UNCHANGED clientVars

\* analyze_location calls _identify_gaps on a non-empty station list only
IdentifyGaps ==
    /\ op = "idle"
    /\ \E st \in GapLists, r \in Radii10 :
          /\ op' = "identify_gaps"
          /\ args' = [stations |-> st, radius_10 |-> r]
          /\ ret' = identify_gaps(st, r)
    /\ UNCHANGED clientVars

AnalyzeOperators ==
    /\ op = "idle"
    /\ \E st \in OperatorLists, t \in BOOLEAN :
          /\ op' = "analyze_operators"
          /\ args' = [stations |-> st, tieUp |-> t]
          /\ ret' = analyze_operators(st, t)
    /\ UNCHANGED clientVars

AnalyzeLocationAccessibility ==
    /\ op = "idle"
    /\ \E st \in SeqsUpTo(AccessStations, MaxSampled), k \in SampleSizes,
          t \in BOOLEAN, low \in BOOLEAN :
          /\ op' = "analyze_location_accessibility"
          /\ args' = [stations |-> st, sample_size |-> k, tieUp |-> t, sumLow |-> low]
          /\ ret' = analyze_location_accessibility(st, k, t, low)
    /\ UNCHANGED clientVars

Return ==
    /\ op # "idle"
    /\ op' = "idle"
    /\ args' = NoValue
    /\ ret' = NoValue
    /\ UNCHANGED clientVars

Next ==
    \/ AnalyzeCountyEquity
    \/ AnalyzeEquityUS
    \/ AnalyzeEquityWorld
    \/ CalculateConvenienceScore
    \/ CalculateDistribution
    \/ AnalyzeCoverage
    \/ IdentifyGaps
    \/ AnalyzeOperators
    \/ AnalyzeLocationAccessibility
    \/ Return

Spec == Init /\ [][Next]_vars

(***************************************************************************)
(* State machine of BaseAPIClient._make_request: one call at a time on one *)
(* client, the cache directory and self.stats lasting from call to call    *)
(***************************************************************************)
\* get / post / _make_request is entered
MakeRequest ==
    /\ pc = "idle"
    /\ calls < MaxCalls
    /\ \E req \in Requests :
          /\ request' = req
          /\ pc' = IF UsesCache(req) THEN "lookup" ELSE "attempt"
    /\ calls' = calls + 1
    /\ attempt' = 0
    /\ sent' = 0
    /\ waits' = <<>>
    /\ last_error' = None
    /\ result' = NoValue
    /\ UNCHANGED <<stats, cache, now>>
    /\ UNCHANGED analysisVars

\* "Check cache for GET requests"
CheckCache ==
    /\ pc = "lookup"
    /\ LET got == get_cached_response(cache, request, now)
       IN  /\ cache' = got.files
           /\ IF got.data # None
                THEN /\ stats' = [stats EXCEPT !.cache_hits = @ + 1]
                     /\ result' = [kind |-> "return", data |-> got.data[1]]
                     /\ pc' = "done"
                ELSE /\ UNCHANGED <<stats, result>>
                     /\ pc' = "attempt"
    /\ UNCHANGED <<request, attempt, sent, waits, last_error, now, calls>>
    /\ UNCHANGED analysisVars

\* one iteration of the retry loop up to its return, raise or fall-through
SendRequest ==
    /\ pc = "attempt"
    /\ \E response \in Responses :
          /\ stats' = [stats EXCEPT !.requests = @ + 1,
                                    !.errors = IF CountsAsError(response) THEN @ + 1 ELSE @]
          /\ IF response.kind = "ok"
               THEN /\ cache' = IF UsesCache(request)
                                  THEN cache_response(cache, request, response.data, now,
                                                      response.disk_ok)
                                  ELSE cache
                    /\ result' = [kind |-> "return", data |-> response.data]
                    /\ pc' = "done"
                    /\ UNCHANGED last_error
               ELSE /\ last_error' = Some(response)
                    /\ UNCHANGED cache
                    /\ IF response.kind = "http_error" /\ IsClientError(response.status)
                         THEN /\ result' = [kind |-> "APIError",
                                            status_code |-> Some(response.status)]
                              /\ pc' = "done"
                         ELSE /\ UNCHANGED result
                              /\ pc' = "retry"
    /\ sent' = sent + 1
    /\ UNCHANGED <<request, attempt, waits, now, calls>>
    /\ UNCHANGED analysisVars

\* the end of a failed iteration: sleep, then the next iteration, or the raise
\* after the loop
WaitBeforeRetry ==
    /\ pc = "retry"
    /\ IF SleepsAfter(attempt)
         THEN /\ waits' = Append(waits, SleepSeconds(attempt))
              /\ now' = now + SleepSeconds(attempt)
         ELSE UNCHANGED <<waits, now>>
    /\ attempt' = attempt + 1
    /\ IF attempt + 1 < max_retries
         THEN /\ pc' = "attempt"
              /\ UNCHANGED result
         ELSE /\ pc' = "done"
              /\ result' = [kind |-> "APIError", status_code |-> None]
    /\ UNCHANGED <<request, sent, last_error, stats, cache, calls>>
    /\ UNCHANGED analysisVars

\* the caller has the response or the exception; the call's locals are gone
ReturnToCaller ==
    /\ pc = "done"
    /\ pc' = "idle"
    /\ request' = NoValue
    /\ attempt' = 0
    /\ sent' = 0
    /\ waits' = <<>>
    /\ last_error' = None
    /\ result' = NoValue
    /\ UNCHANGED <<stats, cache, now, calls>>
    /\ UNCHANGED analysisVars

\* time passes between two calls
ClockAdvance ==
    /\ pc = "idle"
    /\ 0 < calls /\ calls < MaxCalls
    /\ \E d \in ClockSteps :
          /\ now + d <= MaxClock
          /\ now' = now + d
    /\ UNCHANGED <<pc, request, attempt, sent, waits, last_error, result, stats, cache, calls>>
    /\ UNCHANGED analysisVars

ClientNext ==
    \/ MakeRequest
    \/ CheckCache
    \/ SendRequest
    \/ WaitBeforeRetry
    \/ ReturnToCaller
    \/ ClockAdvance

\* a call in progress runs on: the lookup is local, session.request is bounded by
\* its timeout, and time.sleep returns
CallStep == CheckCache \/ SendRequest \/ WaitBeforeRetry \/ ReturnToCaller

ClientFairness == WF_vars(CallStep)

SpecClient == Init /\ [][ClientNext]_vars /\ ClientFairness

(***************************************************************************)
(* Properties                                                              *)
(***************************************************************************)
\* a finished regional analysis of in-domain demographics
RegionalOk ==
    /\ op = "analyze_county_equity"
    /\ ret.status = "success"
    /\ ValidRegion(args.demographics)

\* a finished global analysis of in-domain demographics
GlobalOk ==
    /\ op = "analyze_equity"
    /\ ret.status = "success"
    /\ args.has_fips => ValidRegion(args.census)

Tiers == {200, 400, 600, 800, 1000}

\* the weighted sum 0.35 / 0.25 / 0.20 / 0.20 of four components in tenths,
\* in thousandths
WeightedSum(c1, c2, c3, c4) == 35 * c1 + 25 * c2 + 20 * c3 + 20 * c4

Abs(x) == IF x >= 0 THEN x ELSE -x

\* C1: for in-domain inputs each of the four components of the regional
\* scorer (access, affordability, mobility, income_alignment) lies in [0, 100].
C1_ComponentsClamped ==
    RegionalOk =>
        LET c == ret.equity_assessment.components
        IN  /\ c.access \in 0 .. 1000
            /\ c.affordability \in 0 .. 1000
            /\ c.mobility \in 0 .. 1000
            /\ c.income_alignment \in 0 .. 1000

\* C2: the composite score of the regional and of the global equity scorer
\* lies in [0, 100] and the convenience total_score lies in [0, 10], however
\* large the station count, the density or the POI counts.
C2_CompositeInRange ==
    /\ RegionalOk => ret.equity_assessment.score \in 0 .. 1000
    /\ GlobalOk => ret.equity_assessment.score \in 0 .. 1000
    /\ op = "calculate_convenience_score" => ret.total_score \in 0 .. 100

\* C2 witness: the convenience scorer returned the full 10.0 on a POI count
\* above every cap
C2_Witness ==
    /\ op = "calculate_convenience_score"
    /\ args.counts.dining = MaxPoi
    /\ args.counts.dining * 5 > 25
    /\ ret.total_score = 100

\* C3: the returned grade and rating are the ones the grade table assigns to
\* the returned score, for the regional and for the global scorer.
C3_GradeOfReturnedScore ==
    /\ RegionalOk =>
          <<ret.equity_assessment.grade, ret.equity_assessment.rating>>
              = EquityGrade(100 * ret.equity_assessment.score)
    /\ GlobalOk =>
          <<ret.equity_assessment.grade, ret.equity_assessment.rating>>
              = GlobalGrade(100 * ret.equity_assessment.score)

\* every station is counted, and all of them in one quadrant
AllInOneQuadrant ==
    /\ op = "calculate_distribution"
    /\ Len(args.stations) >= 4
    /\ \A i \in 1 .. Len(args.stations) :
          args.stations[i].latitude # 0 /\ args.stations[i].longitude # 0
    /\ \E q \in {"NE", "NW", "SE", "SW"} : ret.quadrants[q] = Len(args.stations)

\* C4: at least 4 located stations that all fall in a single quadrant about
\* their centroid give an evenness score of 0.0.
C4_SingleQuadrantScoresZero == AllInOneQuadrant => ret.score = 0

\* C5: no scoring operation raises a division error on a zero denominator:
\* population 0 gives stations_per_1000 = 0, and a search radius 0 gives a
\* density of 0 in the global scorer, the coverage analysis and the gap
\* identification.
C5_NoDivisionError ==
    /\ (op = "analyze_county_equity" /\ ret.status = "success"
        /\ args.demographics.population = 0)
          => ret.infrastructure.stations_per_1000.num = 0
    /\ op = "analyze_equity" => ret.status # "ZeroDivisionError"
    /\ op \in {"analyze_coverage", "identify_gaps"} => ret.raised = "no"

\* scenario A: population 851036, income 136689, poverty 10.48, no vehicle
\* 4.12, 50 stations
ScenarioA ==
    /\ op = "analyze_county_equity"
    /\ args.demographics # NoValue
    /\ args.demographics = [population |-> 851036, median_income |-> 136689,
                            poverty_rate |-> 1048, no_vehicle_rate |-> 412]
    /\ args.station_count = 50

\* C6 as stated: scenario A yields an access component of 17.6 and an
\* affordability component of 58.08.
C6_ScenarioA_Stated ==
    ScenarioA =>
        /\ ret.equity_assessment.components.access = 176
        /\ 10 * ret.equity_assessment.components.affordability = 5808

\* C6 as amended: scenario A yields stations_per_1000 of about 0.0587, an
\* access component of 17.6 (below-0.1 branch) and an affordability component
\* of 58.6, from the (10,20] branch 60 - (10.48 - 10) * 3 = 58.56.
C6_ScenarioA ==
    ScenarioA =>
        LET s == ret.infrastructure.stations_per_1000
        IN  /\ (10000 * s.num) \div s.den = 587
            /\ 10 * s.num < s.den
            /\ ret.equity_assessment.components.access = 176
            /\ affordability_score(args.demographics.poverty_rate) = Rat(5856, 100)
            /\ ret.equity_assessment.components.affordability = 586

\* C6 witness: scenario A was analyzed
C6_Witness == ScenarioA /\ ret.status = "success"

\* C7 as stated: the weighted sum of the returned components equals the
\* returned score exactly, for the regional and for the global scorer.
C7_RoundTripExact ==
    (RegionalOk \/ GlobalOk) =>
        LET c == ret.equity_assessment.components
            w == IF op = "analyze_county_equity"
                 THEN WeightedSum(c.access, c.affordability, c.mobility,
                                  c.income_alignment)
                 ELSE WeightedSum(c.access, c.economic_readiness, c.affordability,
                                  c.infrastructure_readiness)
        IN  w = 100 * ret.equity_assessment.score

\* C7 as amended: the weighted sum of the returned components reproduces the
\* returned score up to the rounding of the score to one decimal: the two
\* differ by at most 0.05.
C7_RoundTripRounded ==
    (RegionalOk \/ GlobalOk) =>
        LET c == ret.equity_assessment.components
            w == IF op = "analyze_county_equity"
                 THEN WeightedSum(c.access, c.affordability, c.mobility,
                                  c.income_alignment)
                 ELSE WeightedSum(c.access, c.economic_readiness, c.affordability,
                                  c.infrastructure_readiness)
        IN  Abs(w - 100 * ret.equity_assessment.score) <= 50

\* C7 witness: a regional result whose weighted sum is no multiple of 0.1
C7_Witness ==
    /\ RegionalOk
    /\ EquityComposite(ret.equity_assessment.components) % 100 # 0

\* C8: the regional analysis rejects out-of-domain demographics (negative
\* population, a rate outside 0-100) instead of returning a score.
C8_RejectsInvalidInput ==
    (op = "analyze_county_equity" /\ args.demographics # NoValue
     /\ ~ValidRegion(args.demographics))
        => ret.status # "success"

\* C9: without demographics both analyses return an infrastructure-only
\* partial result that reports the station count found.
C9_PartialResult ==
    /\ (op = "analyze_county_equity" /\ args.demographics = NoValue) =>
          (ret.status = "partial"
           /\ ret.infrastructure.total_stations = args.station_count)
    /\ (op = "analyze_equity"
        /\ IF args.has_fips THEN args.census = NoValue ELSE args.raw = NoValue) =>
          (ret.status = "partial"
           /\ ret.infrastructure.total_stations = args.station_count)

\* C10 as stated: economic_readiness, affordability and
\* infrastructure_readiness of the global scorer are each one of a fixed set
\* of score tiers.
C10_AllStepLookups ==
    GlobalOk =>
        LET c == ret.equity_assessment.components
        IN  /\ c.economic_readiness \in Tiers
            /\ c.affordability \in Tiers
            /\ c.infrastructure_readiness \in Tiers \cup {900}

\* C10 as amended: economic_readiness and affordability are one of the tiers
\* 20, 40, 60, 80, 100; infrastructure_readiness is 90 for country code USA
\* and otherwise the mean of ev_readiness and electricity_access rounded to
\* one decimal.
C10_StepLookups ==
    GlobalOk =>
        LET c == ret.equity_assessment.components
        IN  /\ c.economic_readiness \in Tiers
            /\ c.affordability \in Tiers
            /\ args.country_code = "USA" => c.infrastructure_readiness = 900
            /\ args.country_code # "USA" =>
                  Abs(2 * c.infrastructure_readiness
                      - (ret.demographics.ev_readiness
                         + ret.demographics.electricity_access)) <= 1

\* C10 witness: a country other than the USA whose infrastructure_readiness
\* is an average that is no tier
C10_Witness ==
    /\ GlobalOk
    /\ args.country_code # "USA"
    /\ ret.equity_assessment.components.infrastructure_readiness \notin Tiers \cup {900}
    /\ ret.equity_assessment.components.economic_readiness \in {400, 800}

\* a finished regional analysis
RegionalDone ==
    /\ op = "analyze_county_equity"
    /\ ret.status = "success"

\* the two roundings of n / d to one decimal (they differ on a tie only)
Rounded1(n, d) == {Round1(n, d, TRUE), Round1(n, d, FALSE)}

\* the straight line through (a0 / 10, v0) and (a1 / 10, v1) at s, rounded
\* to one decimal, in tenths
OnLine(s, a0, v0, a1, v1) ==
    Rounded1(v0 * s.den * (a1 - a0) + (10 * s.num - a0 * s.den) * (v1 - v0),
             s.den * (a1 - a0))

\* a0 / 10 <= s <= a1 / 10
Between(s, a0, a1) == a0 * s.den <= 10 * s.num /\ 10 * s.num <= a1 * s.den

\* C11: the access component is 100 for stations_per_1000 >= 1.0, 70 at 0.5,
\* 30 at 0.1, 0 at 0, lies on the straight line between consecutive anchors
\* and is stations_per_1000 x 300 below 0.1, each rounded to one decimal.
C11_AccessAnchors ==
    RegionalDone =>
        LET s == ret.infrastructure.stations_per_1000
            c == ret.equity_assessment.components.access
        IN  /\ s.num >= s.den => c = 1000
            /\ 2 * s.num = s.den => c = 700
            /\ 10 * s.num = s.den => c = 300
            /\ s.num = 0 => c = 0
            /\ Between(s, 5, 10) => c \in OnLine(s, 5, 70, 10, 100)
            /\ Between(s, 1, 5) => c \in OnLine(s, 1, 30, 5, 70)
            /\ Between(s, 0, 1) => c \in OnLine(s, 0, 0, 1, 30)
            /\ 10 * s.num < s.den => c \in Rounded1(300 * s.num, s.den)

\* C11 witness: a density strictly between the anchors 0.1 and 0.5 (0.2
\* stations per 1000) scored 40.0
C11_Witness ==
    /\ RegionalDone
    /\ 5 * ret.infrastructure.stations_per_1000.num
           = ret.infrastructure.stations_per_1000.den
    /\ ret.equity_assessment.components.access = 400

\* rates from 0 to 100 percent in steps of 1.25, and the first rate after
\* each breakpoint, in hundredths of a percent
RateGrid == {125 * k : k \in 0 .. 80} \cup {501, 1001, 2001}

\* C12: the affordability component is 100 for every poverty_rate in [0, 5],
\* is monotonically non-increasing in poverty_rate over the whole range,
\* across the breakpoints 5, 10 and 20 too, and is never below 0.
C12_AffordabilityMonotone ==
    RegionalOk =>
        LET p == args.demographics.poverty_rate
            c == ret.equity_assessment.components.affordability
        IN  /\ p <= 500 => c = 1000
            /\ c >= 0
            /\ \A q \in RateGrid, u \in BOOLEAN :
                  /\ q > p => RoundRat1(affordability_score(q), u) <= c
                  /\ q < p => RoundRat1(affordability_score(q), u) >= c

\* C12 witness: a poverty rate of 40 percent, beyond every breakpoint, scored
\* the floor 0
C12_Witness ==
    /\ RegionalOk
    /\ args.demographics.poverty_rate = 4000
    /\ ret.equity_assessment.components.affordability = 0

\* the access value of C11 before rounding: the piecewise-linear function
\* through (0, 0), (0.1, 30), (0.5, 70), (1.0, 100), and 100 above; the
\* lines are 300 s, 20 + 100 s and 40 + 60 s
AccessValue(s) ==
    IF s.num >= s.den THEN Rat(100, 1)
    ELSE IF 2 * s.num >= s.den THEN Rat(40 * s.den + 60 * s.num, s.den)
    ELSE IF 10 * s.num >= s.den THEN Rat(20 * s.den + 100 * s.num, s.den)
    ELSE Rat(300 * s.num, s.den)

\* C13: when median_income < 0.8 x 75,000 the income_alignment component is
\* the discrete penalty 40 if stations_per_1000 < 0.3 and 60 otherwise; when
\* median_income >= 1.5 x 75,000 it is min(1.1 x access, 100), rounded to one
\* decimal like every component.
C13_IncomeAlignment ==
    RegionalDone =>
        LET s == ret.infrastructure.stations_per_1000
            m == args.demographics.median_income
            c == ret.equity_assessment.components.income_alignment
            a == AccessValue(s)
        IN  /\ 10 * m < 8 * 75000 =>
                  c = IF 10 * s.num < 3 * s.den THEN 400 ELSE 600
            /\ 10 * m >= 15 * 75000 =>
                  IF 11 * a.num >= 1000 * a.den
                  THEN c = 1000
                  ELSE c \in Rounded1(11 * a.num, 10 * a.den)

\* C13 witness: a high-income county with 0.5 stations per 1000 (access 70)
\* scored 77.0
C13_Witness ==
    /\ RegionalDone
    /\ args.demographics.median_income = 136689
    /\ 2 * ret.infrastructure.stations_per_1000.num
           = ret.infrastructure.stations_per_1000.den
    /\ ret.equity_assessment.components.income_alignment = 770

\* C14: the mobility component is 90 for every no_vehicle_rate <= 5, is
\* monotonically non-increasing in no_vehicle_rate, and always lies in
\* [20, 90].
C14_MobilityMonotone ==
    RegionalOk =>
        LET v == args.demographics.no_vehicle_rate
            c == ret.equity_assessment.components.mobility
        IN  /\ v <= 500 => c = 900
            /\ c \in 200 .. 900
            /\ \A q \in RateGrid, u \in BOOLEAN :
                  /\ q > v => RoundRat1(mobility_score(q), u) <= c
                  /\ q < v => RoundRat1(mobility_score(q), u) >= c

\* C14 witness: a no-vehicle rate of 60 percent scored the floor 20
C14_Witness ==
    /\ RegionalOk
    /\ args.demographics.no_vehicle_rate = 6000
    /\ ret.equity_assessment.components.mobility = 200

\* C15: _assess_access_level is a total decision table on access adequate
\* (stations_per_1000 >= 0.4) and need high (poverty_rate >= 15): Urgent/5
\* for inadequate access and high need, High/4 for inadequate access
\* otherwise, Moderate/3 for adequate access and high need, Standard/2
\* otherwise.
C15_PriorityTable ==
    RegionalDone =>
        LET s        == ret.infrastructure.stations_per_1000
            a        == ret.access_assessment
            adequate == 10 * s.num >= 4 * s.den
            high     == args.demographics.poverty_rate >= 1500
        IN  /\ a.access_adequate = adequate
            /\ <<a.priority, a.priority_score>> =
                  CASE ~adequate /\ high  -> <<"Urgent", 5>>
                    [] ~adequate /\ ~high -> <<"High", 4>>
                    [] adequate /\ high   -> <<"Moderate", 3>>
                    [] adequate /\ ~high  -> <<"Standard", 2>>

\* C15 witness: exactly 0.4 stations per 1000 and a poverty rate of exactly
\* 15 percent gave Moderate/3
C15_Witness ==
    /\ RegionalDone
    /\ 10 * ret.infrastructure.stations_per_1000.num
           = 4 * ret.infrastructure.stations_per_1000.den
    /\ args.demographics.poverty_rate = 1500
    /\ ret.access_assessment.priority = "Moderate"
    /\ ret.access_assessment.priority_score = 3

\* the income tiers of the claim and their rank
HighTier == {"Very High Income", "High Income"}

MiddleTier == {"Upper Middle Income", "Middle Income", "Lower Middle Income"}

LowTier == {"Low Income"}

TierRank(income_level) ==
    IF income_level \in HighTier THEN 3
    ELSE IF income_level \in MiddleTier THEN 2
    ELSE 1

\* 1 / benchmark of a tier: benchmark 0.5, 0.2, 0.05
TierBenchmarkInv(income_level) ==
    IF income_level \in HighTier THEN 2
    ELSE IF income_level \in MiddleTier THEN 5
    ELSE 20

\* station_density / benchmark as the quotient DensityNum / DensityDen
DensityNum(station_count, income_level) ==
    station_count * TierBenchmarkInv(income_level) * 100000

DensityDen(radius_km) == 314159 * radius_km * radius_km

\* what C16 says of the access component c, but for when it equals 100:
\* it is min(density / benchmark, 2.0) x 50 to one decimal, lies in
\* [0, 100], and is never lower for a poorer tier than for a richer one
C16_Formula(c) ==
    LET x == DensityNum(args.station_count, ret.demographics.income_level)
        y == DensityDen(args.radius_km)
    IN  /\ IF x >= 2 * y THEN c = 1000 ELSE c \in Rounded1(50 * x, y)
        /\ c \in 0 .. 1000
        /\ \A lv \in HighTier \cup MiddleTier \cup LowTier, u \in BOOLEAN :
              TierRank(lv) < TierRank(ret.demographics.income_level) =>
                  GlobalAccess(args.station_count, lv, args.radius_km, u) >= c

\* C16 as stated: the access component of the global scorer is
\* min(station_density / benchmark, 2.0) x 50 with benchmark 0.5 / 0.2 / 0.05
\* for the high / middle / low income tier, lies in [0, 100], equals 100
\* exactly when density >= 2 x benchmark, and is never lower for a poorer
\* tier than for a richer one.
C16_FullExactlyAtCap ==
    GlobalOk =>
        LET c == ret.equity_assessment.components.access
        IN  /\ C16_Formula(c)
            /\ c = 1000 <=>
                  DensityNum(args.station_count, ret.demographics.income_level)
                      >= 2 * DensityDen(args.radius_km)

\* C16 as amended: as above, but the component equals 100 whenever
\* density >= 2 x benchmark and also below that, when
\* density / benchmark x 50 rounds to 100.0 (from 99.95 on).
C16_FullFromCap ==
    GlobalOk =>
        LET c == ret.equity_assessment.components.access
            x == DensityNum(args.station_count, ret.demographics.income_level)
            y == DensityDen(args.radius_km)
        IN  /\ C16_Formula(c)
            /\ x >= 2 * y => c = 1000
            /\ c = 1000 => x >= 2 * y \/ 1000 \in Rounded1(50 * x, y)

\* C16 witness: 201 stations within 8 km in a high-income country, a density
\* of 0.9997 per km2 below the cap 1.0, scored 100.0
C16_Witness ==
    /\ GlobalOk
    /\ args.station_count = 201
    /\ args.radius_km = 8
    /\ ret.demographics.income_level = "High Income"
    /\ DensityNum(201, "High Income") < 2 * DensityDen(8)
    /\ ret.equity_assessment.components.access = 1000

\* C17: total_score is the sum over the six categories of
\* min(count x weight, cap) with dining (0.5, 2.5), shopping (0.3, 1.5),
\* services (0.3, 1.5), transit (0.5, 2.5), healthcare (0.5, 1.0),
\* entertainment (0.5, 1.0); POIs of another category add nothing; the grade
\* is A from 8.5, B from 7.0, C from 5.0, D from 3.0, else F; dining = 10
\* with every other count 0 gives total 2.5 and grade F.
C17_ConvenienceTotal ==
    op = "calculate_convenience_score" =>
        LET n == args.counts
            total == Min(5 * n.dining, 25) + Min(3 * n.shopping, 15)
                     + Min(3 * n.services, 15) + Min(5 * n.transit, 25)
                     + Min(5 * n.healthcare, 10) + Min(5 * n.entertainment, 10)
        IN  /\ ret.total_score = total
            /\ ret.total_score
                  = calculate_convenience_score([n EXCEPT !.other = 0]).total_score
            /\ ret.grade = CASE total >= 85 -> "A"
                             [] total \in 70 .. 84 -> "B"
                             [] total \in 50 .. 69 -> "C"
                             [] total \in 30 .. 49 -> "D"
                             [] total < 30 -> "F"
            /\ (n.dining = 10 /\ n.shopping = 0 /\ n.services = 0 /\ n.transit = 0
                /\ n.healthcare = 0 /\ n.entertainment = 0)
                  => ret.total_score = 25 /\ ret.grade = "F"

\* C17 witness: scenario C, ten dining places and nothing else but one POI of
\* another category, scored 2.5 with grade F
C17_Witness ==
    /\ op = "calculate_convenience_score"
    /\ args.counts = [dining |-> 10, shopping |-> 0, services |-> 0, transit |-> 0,
                      healthcare |-> 0, entertainment |-> 0, other |-> 1]
    /\ ret.total_score = 25
    /\ ret.grade = "F"

\* the breakpoint table applied to the mean total / n of n scores in tenths
GradeOfMean(total, n) ==
    IF total >= 85 * n THEN "A"
    ELSE IF total >= 70 * n THEN "B"
    ELSE IF total >= 50 * n THEN "C"
    ELSE IF total >= 30 * n THEN "D"
    ELSE "F"

\* the convenience score of station i of the list, 0 if it has none
StationScore(stations, i) ==
    IF stations[i].located
    THEN calculate_convenience_score(stations[i].pois).total_score
    ELSE 0

\* C18: overall_grade is the station-level breakpoint table applied to the
\* arithmetic mean of the convenience scores of the first
\* min(sample_size, n) stations, and _calculate_overall_grade and _get_grade
\* return the same grade for every score.
C18_OverallGradeOfMean ==
    (op = "analyze_location_accessibility" /\ ret.status = "success") =>
        LET k      == Min(args.sample_size, Len(args.stations))
            scored == {i \in 1 .. k : args.stations[i].located}
            total  == SumSeq([i \in 1 .. k |-> StationScore(args.stations, i)])
        IN  /\ \A s \in 0 .. 100 :
                  calculate_overall_grade([num |-> s, den |-> 1, below |-> FALSE])
                      = get_grade(s)
            /\ scored # {} =>
                  ret.summary.overall_grade = GradeOfMean(total, Cardinality(scored))

\* the four stations are one on each corner of a square
OnePerQuadrant(stations) ==
    /\ Len(stations) = 4
    /\ {<<stations[i].latitude, stations[i].longitude>> : i \in 1 .. 4}
           = {<<1, 1>>, <<1, 2>>, <<2, 1>>, <<2, 2>>}

\* C19: a list of at least 4 located stations whose four quadrant counts
\* about the centroid are exactly equal has evenness score 1.0 and rating
\* "Even"; 4 stations placed one per quadrant have counts {1, 1, 1, 1},
\* score 1.0 and rating "Even".
C19_EqualQuadrantsEven ==
    (op = "calculate_distribution" /\ Len(args.stations) >= 4) =>
        /\ (ret.quadrants["NE"] = ret.quadrants["NW"]
            /\ ret.quadrants["NW"] = ret.quadrants["SE"]
            /\ ret.quadrants["SE"] = ret.quadrants["SW"])
              => ret.score = 100 /\ ret.rating = "Even"
        /\ OnePerQuadrant(args.stations) =>
              /\ ret.quadrants = [q \in {"NE", "NW", "SE", "SW"} |-> 1]
              /\ ret.score = 100
              /\ ret.rating = "Even"

\* C19 witness: scenario B, one station per quadrant, scored 1.0 "Even"
C19_Witness ==
    /\ op = "calculate_distribution"
    /\ OnePerQuadrant(args.stations)
    /\ ret.quadrants["NE"] = 1 /\ ret.quadrants["SW"] = 1
    /\ ret.score = 100
    /\ ret.rating = "Even"

\* the list in reverse order
Reversed(stations) ==
    [i \in 1 .. Len(stations) |-> stations[Len(stations) + 1 - i]]

\* the stations of the list grouped by operator, the operators in the order
\* of names
RECURSIVE Grouped(_, _)
Grouped(stations, names) ==
    IF names = <<>> THEN <<>>
    ELSE [i \in 1 .. OperatorCount(stations, Head(names)) |->
             OperatorStation(Head(names))]
         \o Grouped(stations, Tail(names))

GroupOrder == <<"Y", "X", "O9", "O8", "O7", "O6", "O5", "O4", "O3", "O2", "O1">>

\* the operators of a distribution
TopNames(distribution) == {distribution[i].name : i \in 1 .. Len(distribution)}

\* C20: the HHI of _analyze_operators, computed over the top 10 operators by
\* station count, does not depend on the order of the station list: a
\* permutation of the same stations, also one that changes which of several
\* equally-sized operators is at rank 10, gives the same hhi_index and the
\* same market_concentration.  (The same shares round the same way, so the
\* permuted call is made with the same tieUp.)
C20_HhiOrderInvariant ==
    op = "analyze_operators" =>
        \A p \in {Reversed(args.stations), Grouped(args.stations, GroupOrder)} :
            LET other == analyze_operators(p, args.tieUp)
            IN  /\ Len(p) = Len(args.stations)
                /\ other.hhi_index = ret.hhi_index
                /\ other.market_concentration = ret.market_concentration

\* C20 witness: eleven operators, and the reversed list has another operator
\* at rank 10 but the same HHI
C20_Witness ==
    /\ op = "analyze_operators"
    /\ ret.total_operators = 11
    /\ LET other == analyze_operators(Reversed(args.stations), args.tieUp)
       IN  /\ other.distribution[10].name # ret.distribution[10].name
           /\ TopNames(other.distribution) # TopNames(ret.distribution)
           /\ other.hhi_index = ret.hhi_index

\* density = len(stations) / (pi * radius_km ** 2) < 1 for n stations and a
\* radius of r10 / 10 km, with pi between 3.1415 and 3.1416: no n * 100 /
\* r10 ** 2 in use lies between the two
DensityBelowOne(n, r10) == 1000000 * n < 31415 * r10 * r10

\* the gaps whose rule matches
MatchingGaps(stations, r10) ==
    LET n == Len(stations)
        fast_chargers == SumSeq([i \in 1 .. n |-> stations[i].fast])
        operators == {stations[i].operator : i \in 1 .. n}
    IN  (IF 10 * fast_chargers < n
         THEN {[type |-> "fast_charging", severity |-> "high"]} ELSE {})
        \cup (IF Cardinality(operators) < 3
              THEN {[type |-> "operator_diversity", severity |-> "medium"]} ELSE {})
        \cup (IF DensityBelowOne(n, r10)
              THEN {[type |-> "coverage_density", severity |-> "high"]} ELSE {})

\* C21: _identify_gaps evaluates its three rules independently (fast
\* chargers fewer than 10% of the stations: fast_charging / high; fewer than
\* 3 operators: operator_diversity / medium; density < 1 per km2:
\* coverage_density / high): the gap list holds exactly the rules that
\* match, gaps_identified is their number, and the summary is "No
\* significant gaps identified" iff none matches.
C21_IndependentRules ==
    (op = "identify_gaps" /\ ret.raised = "no") =>
        LET matching == MatchingGaps(args.stations, args.radius_10)
        IN  /\ {ret.gaps[i] : i \in 1 .. Len(ret.gaps)} = matching
            /\ Len(ret.gaps) = Cardinality(matching)
            /\ ret.gaps_identified = Cardinality(matching)
            /\ ret.gaps_identified \in 0 .. 3
            /\ ret.summary = "No significant gaps identified" <=> matching = {}

\* C21 witness: eleven stations of three operators within 500 m, one of them
\* fast (below 10%), gave the fast_charging gap alone
C21_Witness ==
    /\ op = "identify_gaps"
    /\ Len(args.stations) = 11
    /\ SumSeq([i \in 1 .. 11 |-> args.stations[i].fast]) = 1
    /\ ret.raised = "no"
    /\ ret.gaps = <<[type |-> "fast_charging", severity |-> "high"]>>

\* C22: for every station list with fewer than 4 stations
\* _calculate_distribution returns the fixed score 0.5 with the rating
\* "Insufficient data", raises nothing and counts no quadrants; the coverage
\* analysis passes this value on.
C22_InsufficientDataFallback ==
    /\ (op = "calculate_distribution" /\ Len(args.stations) < 4) =>
          ret = [score |-> 50, rating |-> "Insufficient data"]
    /\ (op = "analyze_coverage" /\ Len(args.stations) \in 1 .. 3
        /\ ret.raised = "no") =>
          /\ ret.distribution_score = 50
          /\ ret.distribution_rating = "Insufficient data"

\* C22 witness: three stations in three different places got the fallback
C22_Witness ==
    /\ op = "calculate_distribution"
    /\ Len(args.stations) = 3
    /\ Cardinality({args.stations[i] : i \in 1 .. 3}) = 3
    /\ ret.score = 50
    /\ ret.rating = "Insufficient data"
    /\ "quadrants" \notin DOMAIN ret

(***************************************************************************)
(* BaseAPIClient: bounded retry                                            *)
(***************************************************************************)
\* the sleeps taken so far are retry_delay x 1, retry_delay x 2, ... in this order
BackoffSequence == \A i \in 1..Len(waits) : waits[i] = retry_delay * i

\* a state of a call: at most max_retries requests sent; a sleep lies between two
\* consecutive requests and nowhere else; an APIError without status code comes
\* after the last of max_retries failed requests, one with a status code right
\* after a 4xx response
CallShape ==
    /\ sent <= max_retries
    /\ BackoffSequence
    /\ pc = "attempt" => Len(waits) = sent /\ sent < max_retries /\ result = NoValue
    /\ pc = "retry" => Len(waits) = sent - 1 /\ sent >= 1 /\ result = NoValue
    /\ pc = "done" =>
          /\ Len(waits) = Max(sent - 1, 0)
          /\ result.kind \in {"return", "APIError"}
          /\ result.kind = "APIError" =>
                IF result.status_code = None
                  THEN /\ sent = max_retries
                       /\ last_error # None
                  ELSE /\ IsClientError(result.status_code[1])
                       /\ last_error = Some([kind |-> "http_error",
                                             status |-> result.status_code[1]])

\* a step of a call: a request is sent only while the call has no outcome; a 4xx
\* response ends the call at once with an APIError of that status; the call goes
\* on to a retry only after a failure; and the clock of a call moves by its sleep
CallStepShape ==
    /\ sent' > sent =>
          /\ sent' = sent + 1
          /\ pc = "attempt"
          /\ result = NoValue
          /\ pc' \in {"done", "retry"}
    /\ (sent' > sent /\ last_error' # None /\ last_error'[1].kind = "http_error"
           /\ IsClientError(last_error'[1].status)) =>
          /\ pc' = "done"
          /\ result' = [kind |-> "APIError", status_code |-> Some(last_error'[1].status)]
          /\ waits' = waits
    /\ (sent' > sent /\ pc' = "retry") =>
          /\ last_error' # None
          /\ last_error'[1].kind \in {"timeout", "failed", "http_error"}
    /\ (pc = "retry" /\ pc' = "done") =>
          /\ waits' = waits
          /\ now' = now
          /\ result' = [kind |-> "APIError", status_code |-> None]
    /\ (pc = "retry" /\ pc' = "attempt") =>
          /\ waits' = Append(waits, retry_delay * sent)
          /\ now' = now + retry_delay * sent

\* C23: every call of _make_request ends after at most max_retries HTTP requests:
\* with the first successful response, with an APIError right after a 4xx
\* response, or with an APIError after the last failed request; the sleep
\* between request i and request i + 1 is retry_delay x i and no sleep follows
\* the last request.
C23_BoundedRetry ==
    /\ []CallShape
    /\ [][CallStepShape]_vars
    /\ (pc \in {"lookup", "attempt", "retry"}) ~> (pc = "done")

\* all three requests failed with a retryable error; the call slept 1 s and 2 s
C23_Witness ==
    /\ pc = "done"
    /\ result = [kind |-> "APIError", status_code |-> None]
    /\ sent = max_retries
    /\ waits = <<retry_delay, 2 * retry_delay>>

(***************************************************************************)
(* BaseAPIClient: response cache                                           *)
(***************************************************************************)
\* the cache holds an entry for the request's (url, params) that is younger than
\* cache_duration at time t
FreshEntryFor(req, t) ==
    LET key == get_cache_key(req.url, req.params)
    IN  /\ cache[key] # None
        /\ t - cache[key][1].timestamp < cache_duration

\* a step of the client, seen from the cache
CacheStepShape ==
    \* a GET with use_cache, and no other request, starts with the lookup
    /\ (pc = "idle" /\ pc' # "idle") =>
          ((pc' = "lookup") <=> (Upper(request'.method) = "GET" /\ request'.use_cache))
    \* the lookup answers from the cache exactly when the entry is fresh; otherwise
    \* no entry of the key is left and the request goes to the network
    /\ pc = "lookup" =>
          LET key == get_cache_key(request.url, request.params)
          IN  IF FreshEntryFor(request, now)
                THEN /\ pc' = "done"
                     /\ result' = [kind |-> "return", data |-> cache[key][1].data]
                     /\ stats' = [stats EXCEPT !.cache_hits = @ + 1]
                     /\ sent' = 0
                     /\ cache' = cache
                ELSE /\ pc' = "attempt"
                     /\ result' = NoValue
                     /\ stats' = stats
                     /\ cache' = [cache EXCEPT ![key] = None]
    \* a cache hit is counted in no other step
    /\ stats'.cache_hits # stats.cache_hits =>
          /\ pc = "lookup"
          /\ FreshEntryFor(request, now)
          /\ stats'.requests = stats.requests
    \* an entry is written only by a successful attempt of a GET with use_cache,
    \* for the key of the request, holding the response that is returned
    /\ \A k \in CacheKeys :
          (cache'[k] # cache[k] /\ cache'[k] # None) =>
              /\ pc = "attempt"
              /\ Upper(request.method) = "GET"
              /\ request.use_cache
              /\ k = get_cache_key(request.url, request.params)
              /\ pc' = "done"
              /\ result'.kind = "return"
              /\ stats'.requests = stats.requests + 1
              /\ stats'.errors = stats.errors
              /\ cache'[k] = Some([timestamp |-> now, data |-> result'.data])

\* C24: a GET with use_cache is answered from the cache, with no HTTP request
\* (requests unchanged, cache_hits + 1), exactly when an entry for the same
\* (url, params) exists and is younger than cache_duration; an expired entry is
\* deleted by the lookup and the request goes to the network; an entry is
\* written only after a successful GET, never after a failed attempt or for
\* another method.
C24_CacheDiscipline == [][CacheStepShape]_vars

\* a GET answered from an entry that is one second short of cache_duration
C24_Witness ==
    /\ pc = "done"
    /\ sent = 0
    /\ stats.cache_hits = 1
    /\ stats.requests = 1
    /\ result.kind = "return"
    /\ cache[get_cache_key(request.url, request.params)] # None
    /\ now - cache[get_cache_key(request.url, request.params)][1].timestamp
          = cache_duration - 1

(***************************************************************************)
(* Regional scorer: more stations never score lower                        *)
(***************************************************************************)
GradeRank(grade) ==
    CASE grade = "A" -> 5
      [] grade = "B" -> 4
      [] grade = "C" -> 3
      [] grade = "D" -> 2
      [] OTHER -> 1

\* the equity assessment of the same area with n stations
AssessmentWith(n) ==
    calculate_equity_score(StationsPer1000(n, args.demographics.population),
                           args.demographics.median_income,
                           args.demographics.poverty_rate,
                           args.demographics.no_vehicle_rate, args.tieUp)

\* C25: with median_income, poverty_rate and no_vehicle_rate fixed, the composite
\* score and the grade of the regional scorer are non-decreasing in
\* stations_per_1000: more stations in the same area never score lower nor grade
\* worse, fewer stations never score higher nor grade better.
C25_CompositeMonotone ==
    RegionalDone =>
        \A n \in StationCounts :
            LET other == AssessmentWith(n)
                mine  == ret.equity_assessment
            IN  /\ n >= args.station_count =>
                      /\ other.score >= mine.score
                      /\ GradeRank(other.grade) >= GradeRank(mine.grade)
                /\ n <= args.station_count =>
                      /\ other.score <= mine.score
                      /\ GradeRank(other.grade) <= GradeRank(mine.grade)

\* C25 witness: a low-income area whose stations lift it over the penalty at 0.3
\* stations per 1000: with fewer stations both score and grade are lower
C25_Witness ==
    /\ RegionalOk
    /\ 10 * args.demographics.median_income < 8 * national_median
    /\ 10 * ret.infrastructure.stations_per_1000.num
          >= 3 * ret.infrastructure.stations_per_1000.den
    /\ \E n \in StationCounts :
          /\ n < args.station_count
          /\ AssessmentWith(n).score < ret.equity_assessment.score
          /\ GradeRank(AssessmentWith(n).grade) < GradeRank(ret.equity_assessment.grade)

(***************************************************************************)
(* Distribution: range of the evenness score                               *)
(***************************************************************************)
\* stations the quadrant loop counts
LocatedCount(stations) ==
    Cardinality({i \in 1 .. Len(stations) :
                    stations[i].latitude # 0 /\ stations[i].longitude # 0})

BoolToInt(b) == IF b THEN 1 ELSE 0

\* entries other than the generic one
RuleEntries(recs) ==
    Cardinality({i \in 1 .. Len(recs) : recs[i] # "Community Engagement"})

\* the list has 1..5 entries, `triggered` of them from rules, and the generic
\* entry is there exactly when triggered < 3, in the last place
RecommendationShape(recs, triggered) ==
    /\ Len(recs) >= 1
    /\ Len(recs) <= 5
    /\ RuleEntries(recs) = triggered
    /\ (\E i \in 1 .. Len(recs) : recs[i] = "Community Engagement") <=> triggered < 3
    /\ \A i \in 1 .. Len(recs) : recs[i] = "Community Engagement" => i = Len(recs)

\* entries the rules of _generate_recommendations call for
RegionalTriggered ==
    BoolToInt(10 * ret.infrastructure.stations_per_1000.num
                 < 3 * ret.infrastructure.stations_per_1000.den)
    + 2 * BoolToInt(args.demographics.poverty_rate > 1500)
    + BoolToInt(args.demographics.median_income < 50000)
    + BoolToInt(ret.equity_assessment.score < 500)

\* entries the rules of _generate_global_recommendations call for
GlobalTriggered ==
    BoolToInt(args.station_count < 50)
    + 2 * BoolToInt(ret.demographics.income_level
                       \in {"Lower Middle Income", "Low Income"})
    + BoolToInt(ret.demographics.poverty_rate # None
                /\ ret.demographics.poverty_rate[1] > 1500)
    + BoolToInt("ev_readiness" \in DOMAIN ret.demographics
                /\ ret.demographics.ev_readiness < 500)

\* C27: the recommendation list of the regional and of the global analysis is
\* never empty and has at most 5 entries; "Community Engagement" is in it
\* exactly when fewer than 3 recommendations were triggered by rules, and then
\* it is the last entry.
C27_RecommendationList ==
    /\ RegionalDone => RecommendationShape(ret.recommendations, RegionalTriggered)
    /\ (op = "analyze_equity" /\ ret.status = "success")
          => RecommendationShape(ret.recommendations, GlobalTriggered)

\* C27 witness: a poor, low-income county without stations: all rules trigger,
\* five entries and no generic one
C27_Witness ==
    /\ RegionalOk
    /\ RegionalTriggered = 5
    /\ ret.recommendations = <<"Infrastructure Expansion", "Affordability",
                               "Location Strategy", "Financial Support", "Equity Focus">>

(***************************************************************************)
(* Global scorer: missing poverty rate                                     *)
(***************************************************************************)
\* a finished global analysis whose demographics carry no poverty rate
NoPovertyData ==
    /\ op = "analyze_equity"
    /\ ret.status = "success"
    /\ ret.demographics.poverty_rate = None

\* C28: in the global analysis a missing (null) poverty_rate counts as 0: the
\* affordability component is 100, the "Equity" recommendation of the
\* high-poverty rule is not emitted, and no known poverty rate scores higher on
\* affordability.
C28_MissingPovertyIsZero ==
    NoPovertyData =>
        /\ ret.equity_assessment.components.affordability = 1000
        /\ \A i \in 1 .. Len(ret.recommendations) : ret.recommendations[i] # "Equity"
        /\ \A q \in RateGrid :
              GlobalAffordability(q) <= ret.equity_assessment.components.affordability

\* C28 witness: a low-income country for which the World Bank has no poverty
\* rate: affordability 100 and the low-income entries, but no "Equity" entry
C28_Witness ==
    /\ NoPovertyData
    /\ args.raw # NoValue
    /\ args.raw.poverty = None
    /\ ret.demographics.income_level = "Low Income"
    /\ ret.equity_assessment.components.affordability = 1000
    /\ \E i \in 1 .. Len(ret.recommendations) : ret.recommendations[i] = "Affordability"
    /\ \A i \in 1 .. Len(ret.recommendations) : ret.recommendations[i] # "Equity"

(***************************************************************************)
(* Infrastructure analysis: density gap and coverage rating                *)
(***************************************************************************)
HasDensityGap(gaps) == \E i \in 1 .. Len(gaps) : gaps[i].type = "coverage_density"

\* C29: for one station list and one radius > 0 the coverage_density gap of
\* _identify_gaps is reported if and only if _analyze_coverage rates the
\* coverage "Limited" or "Poor" (coverage_score <= 2); a coverage_score of 3 or
\* more never goes with that gap.
C29_GapMatchesCoverage ==
    /\ (op = "identify_gaps" /\ ret.raised = "no") =>
          LET coverage == analyze_coverage(args.stations, args.radius_10, TRUE)
          IN  /\ HasDensityGap(ret.gaps) <=> coverage.coverage_score <= 2
              /\ HasDensityGap(ret.gaps)
                    <=> coverage.coverage_rating \in {"Limited", "Poor"}
    /\ (op = "analyze_coverage" /\ Len(args.stations) > 0 /\ ret.raised = "no") =>
          LET found == identify_gaps(args.stations, args.radius_10)
          IN  /\ ret.coverage_score <= 2 <=> HasDensityGap(found.gaps)
              /\ ret.coverage_rating \in {"Limited", "Poor"} <=> ret.coverage_score <= 2

\* C29 witness: three stations within 1 km, 0.95 per km2: the gap is reported
\* and the coverage is rated "Limited"
C29_Witness ==
    /\ op = "identify_gaps"
    /\ Len(args.stations) = 3
    /\ args.radius_10 = 10
    /\ ret.raised = "no"
    /\ HasDensityGap(ret.gaps)
    /\ analyze_coverage(args.stations, args.radius_10, TRUE).coverage_rating = "Limited"

(***************************************************************************)
(* Accessibility: grade distribution and summary statistics                *)
(***************************************************************************)
\* C30: in a successful result of analyze_location_accessibility with
\* sample_size >= 1 the counts of grade_distribution sum to stations_analyzed =
\* min(sample_size, number of stations); a sampled station without coordinates
\* counts as an F in the distribution and does not enter the average, which is
\* the mean over the scored stations; and min_convenience_score <=
\* avg_convenience_score <= max_convenience_score.
C30_DistributionAndSummary ==
    (op = "analyze_location_accessibility" /\ ret.status = "success"
     /\ args.sample_size >= 1) =>
        LET k         == Min(args.sample_size, Len(args.stations))
            scored    == {i \in 1 .. k : args.stations[i].located}
            unlocated == {i \in 1 .. k : ~args.stations[i].located}
            total     == SumSeq([i \in 1 .. k |-> StationScore(args.stations, i)])
            dist      == ret.grade_distribution
        IN  /\ ret.summary.stations_analyzed = k
            /\ dist["A"] + dist["B"] + dist["C"] + dist["D"] + dist["F"] = k
            /\ dist["F"] = Cardinality(unlocated)
                  + Cardinality({i \in scored :
                        get_grade(StationScore(args.stations, i)) = "F"})
            /\ \A i \in 1 .. k :
                  i \in unlocated <=> ~HasConvenienceScore(ret.detailed_analyses[i])
            /\ IF scored = {}
                 THEN ret.summary.avg_convenience_score = 0
                 ELSE ret.summary.avg_convenience_score
                          \in Rounded1(total, 10 * Cardinality(scored))
            /\ ret.summary.min_convenience_score <= ret.summary.avg_convenience_score
            /\ ret.summary.avg_convenience_score <= ret.summary.max_convenience_score

\* C30 witness: three sampled stations, one of them without coordinates: it is
\* an F of the distribution, and the average of the other two lies strictly
\* between their scores
C30_Witness ==
    /\ op = "analyze_location_accessibility"
    /\ ret.status = "success"
    /\ args.sample_size >= 1
    /\ ret.summary.stations_analyzed = 3
    /\ Cardinality({i \in 1 .. 3 : ~args.stations[i].located}) = 1
    /\ ret.grade_distribution["F"] >= 1
    /\ ret.summary.min_convenience_score < ret.summary.avg_convenience_score
    /\ ret.summary.avg_convenience_score < ret.summary.max_convenience_score

=============================================================================
